---- MODULE Spec2Model ----
(***************************************************************************)
(* Tool registry, tool selector, tool executor and search client of the    *)
(* Grok chat application (src/mcp.py, src/search.py, src/ai.py, src/ui.py).*)
(* Text is modelled by TLA+ strings; Python's substring test, lower(),     *)
(* split() and the regular expressions of the source are computed          *)
(* character by character.  A local variable of the source that is read    *)
(* several times is bound once, as the only element of a singleton set.    *)
(***************************************************************************)
EXTENDS Integers, Sequences, FiniteSets, TLC

(***************************************************************************)
(* Python string primitives.                                               *)
(***************************************************************************)
UpperChars == "ABCDEFGHIJKLMNOPQRSTUVWXYZ"

LowerChars == "abcdefghijklmnopqrstuvwxyz"

DigitChars == "0123456789"

\* str.strip() argument of mcp.py:301 and mcp.py:372
StripChars == ".,?!:;()[]{}'\""

Char(s, i) == IF 1 <= i /\ i <= Len(s) THEN SubSeq(s, i, i) ELSE ""

\* the characters of a string
CharsOf(cs) == {SubSeq(cs, i, i) : i \in 1..Len(cs)}

UpperSet == CharsOf(UpperChars)

LowerSet == CharsOf(LowerChars)

DigitSet == CharsOf(DigitChars)

StripSet == CharsOf(StripChars)

IsAlpha(c) == c \in LowerSet \/ c \in UpperSet

IsAlnum(c) == IsAlpha(c) \/ c \in DigitSet

\* \w of the re module
IsWordChar(c) == IsAlnum(c) \/ c = "_"

\* \s of the re module
IsSpace(c) == c \in {" ", "\t", "\n", "\r", "\f"}

\* [-a-zA-Z0-9]
IsLabelChar(c) == IsAlnum(c) \/ c = "-"

LowerChar(c) ==
    IF c \in UpperSet
    THEN SubSeq(LowerChars, CHOOSE i \in 1..Len(UpperChars) : SubSeq(UpperChars, i, i) = c,
                CHOOSE i \in 1..Len(UpperChars) : SubSeq(UpperChars, i, i) = c)
    ELSE c

RECURSIVE lower(_)
\* str.lower()
lower(s) ==
    IF Len(s) = 0 THEN ""
    ELSE IF Len(s) = 1 THEN LowerChar(s)
    ELSE lower(SubSeq(s, 1, Len(s) \div 2)) \o lower(SubSeq(s, (Len(s) \div 2) + 1, Len(s)))

\* s[i:i+len(p)] == p
StartsWithAt(s, i, p) == i >= 1 /\ i + Len(p) - 1 <= Len(s) /\ SubSeq(s, i, i + Len(p) - 1) = p

\* str.startswith
StartsWith(s, p) == StartsWithAt(s, 1, p)

\* Python's "n in h" on strings
In(n, h) == \E i \in 1..(Len(h) - Len(n) + 1) : SubSeq(h, i, i + Len(n) - 1) = n

\* str.find, 1-based, 0 when absent
Find(h, n) ==
    IF In(n, h) THEN CHOOSE i \in 1..(Len(h) - Len(n) + 1) :
                        /\ SubSeq(h, i, i + Len(n) - 1) = n
                        /\ \A j \in 1..(i - 1) : SubSeq(h, j, j + Len(n) - 1) # n
    ELSE 0

\* any(keyword in s for keyword in keywords)
AnyIn(keywords, s) == \E k \in keywords : In(k, s)

\* Python's "x in list"
InList(x, l) == \E i \in 1..Len(l) : l[i] = x

\* Optional values: None and a present value
None == <<>>

Some(x) == <<x>>

(***************************************************************************)
(* intent_categories of select_mcp_tools (duplicates of the source lists   *)
(* removed, as membership is all the code uses).                           *)
(***************************************************************************)
KW_web_scraping == {
    "scrape", "website", "webpage", "web page", "site content", "extract from site",
    "get content from", "content from", "information from", "data from", "text from",
    "extract content", "extract data", "extract information", "extract text", "get website",
    "get webpage", "get web page", "get site", "get page", "fetch website", "fetch webpage",
    "fetch web page", "fetch site", "fetch page", "retrieve website", "retrieve webpage",
    "retrieve web page", "retrieve site", "retrieve page"}

KW_web_crawling == {
    "crawl", "spider", "website structure", "site map", "multiple pages", "scan website",
    "scan site", "scan web", "scan page", "explore website", "explore site", "explore web",
    "explore page", "navigate website", "navigate site", "navigate web", "navigate page"}

KW_search == {
    "search", "find information", "look up", "find out", "information about", "what is", "who is",
    "where is", "when did", "how to", "why is", "can you", "tell me about", "explain", "describe",
    "define", "meaning of", "definition of", "information on", "details about", "facts about",
    "learn about"}

KW_news == {
    "news", "latest", "recent", "current events", "today's headlines", "breaking", "current news",
    "recent developments", "latest updates", "current situation", "what's happening",
    "recent news", "today's news", "this week's news", "this month's news"}

KW_documentation == {
    "documentation", "docs", "api", "library", "framework", "how to use", "code example",
    "programming", "coding", "developer", "development", "software", "application", "app",
    "program", "script", "function", "method", "class", "object", "variable", "constant",
    "parameter", "argument", "return value", "syntax", "semantics", "implementation", "interface",
    "module", "package", "dependency", "import", "export", "compile", "build", "deploy", "run",
    "execute", "debug", "test", "unit test", "integration test", "functional test",
    "performance test", "benchmark", "profiling", "optimization", "refactoring", "code review",
    "version control", "git", "svn", "mercurial", "repository", "commit", "push", "pull", "merge",
    "branch", "tag", "release", "deployment", "continuous integration", "continuous delivery",
    "continuous deployment", "devops", "agile", "scrum", "kanban", "waterfall", "lean",
    "extreme programming", "pair programming", "code quality", "code coverage", "code complexity",
    "code smell", "technical debt", "clean code", "design pattern", "architecture", "microservice",
    "monolith", "serverless", "cloud", "container", "docker", "kubernetes", "orchestration",
    "scaling", "load balancing", "high availability", "fault tolerance", "disaster recovery",
    "backup", "restore", "monitoring", "logging", "alerting", "metrics", "analytics", "dashboard",
    "visualization", "reporting", "business intelligence", "data science", "machine learning",
    "artificial intelligence", "deep learning", "neural network", "natural language processing",
    "computer vision", "speech recognition", "speech synthesis", "chatbot", "virtual assistant",
    "recommendation system", "personalization", "user experience", "user interface", "frontend",
    "backend", "full stack", "web development", "mobile development", "desktop development",
    "embedded development", "game development", "database", "sql", "nosql", "relational database",
    "document database", "key-value database", "graph database", "time series database",
    "in-memory database", "distributed database", "data warehouse", "data lake", "data mining",
    "data analysis", "data visualization", "data modeling", "data engineering",
    "data architecture", "data governance", "data quality", "data security", "data privacy",
    "data protection", "data backup", "data recovery", "data migration", "data integration",
    "data transformation", "data pipeline", "data streaming", "data batch processing",
    "data real-time processing", "data near-real-time processing", "data offline processing",
    "data online processing", "data analytics", "data scientist", "data engineer", "data analyst",
    "data architect", "data administrator", "database administrator", "database developer",
    "database designer", "database architect", "database engineer", "database analyst",
    "database security", "database performance", "database optimization", "database tuning",
    "database indexing", "database partitioning", "database sharding", "database replication",
    "database backup", "database recovery", "database migration", "database upgrade",
    "database downgrade", "database version control", "database schema", "database model",
    "database design", "database architecture"}

KW_research == {
    "research", "in-depth", "comprehensive", "analyze", "study", "investigate", "deep dive",
    "thorough", "detailed", "extensive", "exhaustive", "complete", "full", "all-inclusive",
    "all-encompassing", "all-embracing", "all-around", "all-out", "all-over", "all-purpose",
    "all-round", "all-sided"}

KW_reasoning == {
    "solve", "equation", "formula", "math", "physics", "breakdown", "complex task", "step by step",
    "analyze problem", "solution", "answer", "result", "output", "outcome", "conclusion",
    "finding", "discovery", "revelation", "insight", "understanding", "comprehension", "grasp",
    "mastery", "knowledge", "wisdom", "intelligence", "intellect", "mind", "brain", "thought",
    "thinking", "cognition", "perception", "conception", "idea", "notion", "concept", "theory",
    "hypothesis", "conjecture", "supposition", "assumption", "presumption", "premise", "postulate",
    "axiom", "theorem", "law", "rule", "principle", "guideline", "standard", "criterion",
    "measure", "benchmark", "yardstick", "touchstone", "litmus test", "acid test", "test", "trial",
    "experiment", "investigation", "examination", "inspection", "scrutiny", "review", "analysis",
    "evaluation", "assessment", "appraisal", "judgment", "verdict", "decision", "determination",
    "resolution"}

\* dict order of intent_categories
CategoryOrder == <<"web_scraping", "web_crawling", "search", "news", "documentation", "research", "reasoning">>

intent_categories(c) ==
    CASE c = "web_scraping" -> KW_web_scraping
      [] c = "web_crawling" -> KW_web_crawling
      [] c = "search" -> KW_search
      [] c = "news" -> KW_news
      [] c = "documentation" -> KW_documentation
      [] c = "research" -> KW_research
      [] c = "reasoning" -> KW_reasoning

(***************************************************************************)
(* The regular expressions of mcp.py, each computed as re.search does.     *)
(***************************************************************************)
RECURSIVE NonSpaceRunEnd(_, _)
\* end of the greedy [^\s]+ run that starts at i (i - 1 when the run is empty)
NonSpaceRunEnd(s, i) ==
    IF i <= Len(s) /\ ~IsSpace(Char(s, i)) THEN NonSpaceRunEnd(s, i + 1) ELSE i - 1

RECURSIVE LabelRunEnd(_, _)
\* end of the greedy [-a-zA-Z0-9]* run that starts at i
LabelRunEnd(s, i) ==
    IF i <= Len(s) /\ IsLabelChar(Char(s, i)) THEN LabelRunEnd(s, i + 1) ELSE i - 1

RECURSIVE AlphaRunEnd(_, _)
\* end of the greedy [a-zA-Z]* run that starts at i
AlphaRunEnd(s, i) ==
    IF i <= Len(s) /\ IsAlpha(Char(s, i)) THEN AlphaRunEnd(s, i + 1) ELSE i - 1

\* [a-zA-Z0-9][-a-zA-Z0-9]*\. matched at i: index of the dot, 0 when no match
LabelDot(s, i) ==
    IF IsAlnum(Char(s, i)) /\ Char(s, LabelRunEnd(s, i + 1) + 1) = "."
    THEN LabelRunEnd(s, i + 1) + 1 ELSE 0

\* prefix + [^\s]+ matched at i: index of the last character, 0 when no match
PrefixRunAt(s, i, prefix) ==
    IF StartsWithAt(s, i, prefix) /\ NonSpaceRunEnd(s, i + Len(prefix)) >= i + Len(prefix)
    THEN NonSpaceRunEnd(s, i + Len(prefix)) ELSE 0

\* https?://[^\s]+|www\.[^\s]+ matched at i
UrlAt(s, i) ==
    IF PrefixRunAt(s, i, "https://") > 0 THEN PrefixRunAt(s, i, "https://")
    ELSE IF PrefixRunAt(s, i, "http://") > 0 THEN PrefixRunAt(s, i, "http://")
    ELSE PrefixRunAt(s, i, "www.")

\* re.search(r'https?://[^\s]+|www\.[^\s]+', s).group(0), "" for no match
url_search(s) ==
    IF \E i \in 1..Len(s) : UrlAt(s, i) > 0
    THEN LET i == CHOOSE k \in 1..Len(s) : UrlAt(s, k) > 0 /\ \A j \in 1..(k - 1) : UrlAt(s, j) = 0
         IN  SubSeq(s, i, UrlAt(s, i))
    ELSE ""

\* [a-zA-Z]{2,}\b matched at i: index of the last character, 0 when no match
TldAt(s, i) ==
    IF AlphaRunEnd(s, i) >= i + 1 /\ ~IsWordChar(Char(s, AlphaRunEnd(s, i) + 1))
    THEN AlphaRunEnd(s, i) ELSE 0

RECURSIVE DomainAfterDot(_, _)
\* the rest of ([a-zA-Z0-9][-a-zA-Z0-9]*\.)+[a-zA-Z]{2,}\b after a group that ends at the
\* dot p: the greedy + tries one more group first and backtracks to the top-level domain
DomainAfterDot(s, p) ==
    LET more == IF LabelDot(s, p + 1) > 0 THEN DomainAfterDot(s, LabelDot(s, p + 1)) ELSE 0
    IN  IF more > 0 THEN more ELSE TldAt(s, p + 1)

\* \b([a-zA-Z0-9][-a-zA-Z0-9]*\.)+[a-zA-Z]{2,}\b matched at i
DomainAt(s, i) ==
    IF ~IsWordChar(Char(s, i - 1)) /\ LabelDot(s, i) > 0 THEN DomainAfterDot(s, LabelDot(s, i)) ELSE 0

\* re.search(r'\b([a-zA-Z0-9][-a-zA-Z0-9]*\.)+[a-zA-Z]{2,}\b', s).group(0), "" for no match
domain_search(s) ==
    IF \E i \in 1..Len(s) : DomainAt(s, i) > 0
    THEN LET i == CHOOSE k \in 1..Len(s) : DomainAt(s, k) > 0 /\ \A j \in 1..(k - 1) : DomainAt(s, j) = 0
         IN  SubSeq(s, i, DomainAt(s, i))
    ELSE ""

\* the third and fourth alternatives of the pattern of mcp.py:875 matched at i
BareDomainAt(s, i) ==
    \/ /\ LabelDot(s, i) > 0
       /\ LabelDot(s, LabelDot(s, i) + 1) > 0
       /\ AlphaRunEnd(s, LabelDot(s, LabelDot(s, i) + 1) + 1) >= LabelDot(s, LabelDot(s, i) + 1) + 2
    \/ /\ LabelDot(s, i) > 0
       /\ AlphaRunEnd(s, LabelDot(s, i) + 1) >= LabelDot(s, i) + 2

\* truth value of the "more comprehensive URL detection" search of mcp.py:875
wide_url_found(s) == \E i \in 1..Len(s) : UrlAt(s, i) > 0 \/ BareDomainAt(s, i)

RECURSIVE SpaceRunEnd(_, _)
\* end of the greedy \s* run that starts at i
SpaceRunEnd(s, i) ==
    IF i <= Len(s) /\ IsSpace(Char(s, i)) THEN SpaceRunEnd(s, i + 1) ELSE i - 1

\* truth value of re.search(r'(content|information|data|text)\s+from', s)
content_from_found(s) ==
    \E i \in 1..Len(s) : \E w \in {"content", "information", "data", "text"} :
        /\ StartsWithAt(s, i, w)
        /\ SpaceRunEnd(s, i + Len(w)) >= i + Len(w)
        /\ StartsWithAt(s, SpaceRunEnd(s, i + Len(w)) + 1, "from")

(***************************************************************************)
(* Tool registry (mcp.py:68-148).  mcp_settings["mcpServers"] is a         *)
(* sequence of servers in dict insertion order.  app.py:210-213 replaces   *)
(* settings without servers by the default settings, so the key is always  *)
(* present.                                                                *)
(***************************************************************************)
RECURSIVE Dedup(_)
Dedup(l) ==
    IF Len(l) = 0 THEN <<>>
    ELSE LET front == Dedup(SubSeq(l, 1, Len(l) - 1))
         IN  IF InList(l[Len(l)], front) THEN front ELSE Append(front, l[Len(l)])

Reverse(l) == [i \in 1..Len(l) |-> l[Len(l) + 1 - i]]

\* Iteration order of set(auto_approve + always_allow): the order depends on the string
\* hashes of the process; hash_order selects one of two enumerations.
HashOrders == {"listed", "reversed"}

allowed_functions(server_config, order) ==
    IF order = "listed"
    THEN Dedup(server_config.autoApprove \o server_config.alwaysAllow)
    ELSE Reverse(Dedup(server_config.autoApprove \o server_config.alwaysAllow))

\* f"{function}_{server_name}"
tool_id(function, server_name) == function \o "_" \o server_name

server_tools(server_config, order) ==
    [i \in 1..Len(allowed_functions(server_config, order)) |->
        tool_id(allowed_functions(server_config, order)[i], server_config.name)]

RECURSIVE configured_tools_of_all(_, _)
\* the loop without the test of the disabled flag (a fault that C4 has to exclude)
configured_tools_of_all(servers, order) ==
    IF Len(servers) = 0 THEN <<>>
    ELSE configured_tools_of_all(SubSeq(servers, 1, Len(servers) - 1), order)
            \o server_tools(servers[Len(servers)], order)

RECURSIVE configured_tools(_, _)
\* the loop of mcp.py:75-93
configured_tools(servers, order) ==
    IF Len(servers) = 0 THEN <<>>
    ELSE LET last == servers[Len(servers)]
             front == configured_tools(SubSeq(servers, 1, Len(servers) - 1), order)
         IN  IF last.disabled THEN front ELSE front \o server_tools(last, order)

firecrawl_tools == <<"firecrawl_scrape_firecrawl-mcp", "firecrawl_crawl_firecrawl-mcp",
                     "firecrawl_search_firecrawl-mcp", "firecrawl_map_firecrawl-mcp",
                     "firecrawl_deep_research_firecrawl-mcp">>

brave_search_disabled(servers) ==
    \E i \in 1..Len(servers) : servers[i].name = "brave-search" /\ servers[i].disabled

\* a registry without default tools (a fault that C5 has to exclude)
no_default_tools(servers) == <<>>

\* the default tools "for simulation" of mcp.py:95-125
default_tools(servers) ==
    (IF brave_search_disabled(servers) THEN <<>> ELSE <<"search_brave-search">>)
    \o firecrawl_tools
    \o <<"tavily-search_tavily-mcp", "get_documentation_perplexity-mcp",
         "deep-research_Serper-search-mcp">>

get_available_mcp_tools(settings, order) ==
    IF Len(configured_tools(settings.mcpServers, order)) = 0
    THEN default_tools(settings.mcpServers)
    ELSE configured_tools(settings.mcpServers, order)

RECURSIVE enabled_servers(_)
enabled_servers(servers) ==
    IF Len(servers) = 0 THEN <<>>
    ELSE LET last == servers[Len(servers)]
             front == enabled_servers(SubSeq(servers, 1, Len(servers) - 1))
         IN  IF last.disabled THEN front ELSE Append(front, last.name)

get_available_mcp_servers(settings) == enabled_servers(settings.mcpServers)

(***************************************************************************)
(* Search client (search.py:10-83).  http[a] is the outcome of the a-th    *)
(* requests.get: "ok" with the items of the response body, a               *)
(* "request_exception" (timeout, connection error, HTTP error status), or  *)
(* "bad_body" (a body of another shape, on which data.get raises).         *)
(***************************************************************************)
DEFAULT_MAX_RETRIES == 3

\* search.py:56-64
process_results(items) ==
    [i \in 1..Len(items) |->
        [title |-> items[i].title, url |-> items[i].url, snippet |-> items[i].description]]

RECURSIVE retry_loop_constant_delay(_, _, _, _, _)
\* the loop without retry_delay *= 2 (a fault that C10 has to exclude)
retry_loop_constant_delay(attempt, retry_delay, sleeps, max_retries, http) ==
    IF attempt >= max_retries
    THEN [raised |-> FALSE, results |-> <<>>, attempts |-> attempt, sleeps |-> sleeps]
    ELSE CASE http[attempt + 1].kind = "ok" ->
                [raised |-> FALSE, results |-> process_results(http[attempt + 1].items),
                 attempts |-> attempt + 1, sleeps |-> sleeps]
           [] http[attempt + 1].kind = "request_exception" ->
                IF attempt < max_retries - 1
                THEN retry_loop_constant_delay(attempt + 1, retry_delay,
                                               Append(sleeps, retry_delay), max_retries, http)
                ELSE [raised |-> FALSE, results |-> <<>>, attempts |-> attempt + 1,
                      sleeps |-> sleeps]
           [] OTHER ->
                [raised |-> TRUE, results |-> <<>>, attempts |-> attempt + 1, sleeps |-> sleeps]

RECURSIVE retry_loop(_, _, _, _, _)
\* the for loop of search.py:48-81 from iteration `attempt` on
retry_loop(attempt, retry_delay, sleeps, max_retries, http) ==
    IF attempt >= max_retries
    THEN [raised |-> FALSE, results |-> <<>>, attempts |-> attempt, sleeps |-> sleeps]
    ELSE CASE http[attempt + 1].kind = "ok" ->
                [raised |-> FALSE, results |-> process_results(http[attempt + 1].items),
                 attempts |-> attempt + 1, sleeps |-> sleeps]
           [] http[attempt + 1].kind = "request_exception" ->
                IF attempt < max_retries - 1
                THEN retry_loop(attempt + 1, retry_delay * 2, Append(sleeps, retry_delay),
                                max_retries, http)
                ELSE [raised |-> FALSE, results |-> <<>>, attempts |-> attempt + 1,
                      sleeps |-> sleeps]
           [] OTHER ->
                [raised |-> TRUE, results |-> <<>>, attempts |-> attempt + 1, sleeps |-> sleeps]

brave_search(key_set, freshness, max_retries, http) ==
    IF ~key_set
    THEN [raised |-> FALSE, results |-> <<>>, attempts |-> 0, sleeps |-> <<>>,
          freshness |-> freshness]
    ELSE LET r == retry_loop(0, 1, <<>>, max_retries, http)
         IN  [raised |-> r.raised, results |-> r.results, attempts |-> r.attempts,
              sleeps |-> r.sleeps, freshness |-> freshness]

(***************************************************************************)
(* Tool executor (mcp.py:190-621).                                         *)
(***************************************************************************)
\* tool_name.split('_', 1)
split_first(tool_name) ==
    IF Find(tool_name, "_") = 0 THEN <<tool_name>>
    ELSE <<SubSeq(tool_name, 1, Find(tool_name, "_") - 1),
           SubSeq(tool_name, Find(tool_name, "_") + 1, Len(tool_name))>>

\* s.split(keyword)[1]: the text between the first and the second occurrence of keyword
after_keyword(s, keyword) ==
    LET rest == SubSeq(s, Find(s, keyword) + Len(keyword), Len(s))
    IN  IF Find(rest, keyword) = 0 THEN rest ELSE SubSeq(rest, 1, Find(rest, keyword) - 1)

\* s.strip().split()[0], "" when there is no word
first_word(s) ==
    LET start == SpaceRunEnd(s, 1) + 1
    IN  SubSeq(s, start, NonSpaceRunEnd(s, start))

RECURSIVE lstrip_chars(_)
lstrip_chars(s) ==
    IF Len(s) > 0 /\ SubSeq(s, 1, 1) \in StripSet
    THEN lstrip_chars(SubSeq(s, 2, Len(s))) ELSE s

RECURSIVE rstrip_chars(_)
rstrip_chars(s) ==
    IF Len(s) > 0 /\ SubSeq(s, Len(s), Len(s)) \in StripSet
    THEN rstrip_chars(SubSeq(s, 1, Len(s) - 1)) ELSE s

\* "Ensure URL has proper protocol"
with_protocol(url) ==
    IF StartsWith(url, "http://") \/ StartsWith(url, "https://") THEN url ELSE "https://" \o url

scrape_domain_keywords == <<"website", "site", "page", "url", "link", "web", "content from",
                            "information from", "data from", "scrape">>

crawl_domain_keywords == <<"website", "site", "page", "url", "link", "web", "crawl", "spider",
                           "explore", "navigate">>

\* one iteration of the keyword loop of mcp.py:278-312 / 349-383: the URL, "" to go on
url_after_keyword(query, keyword) ==
    IF ~In(keyword, lower(query)) THEN ""
    ELSE LET text == after_keyword(lower(query), keyword)
             word == rstrip_chars(lstrip_chars(first_word(text)))
         IN  IF domain_search(text) # "" THEN with_protocol(domain_search(text))
             ELSE IF In(".", word) THEN with_protocol(word)
             ELSE ""

RECURSIVE url_from_keywords(_, _, _)
url_from_keywords(query, keywords, k) ==
    IF k > Len(keywords) THEN ""
    ELSE IF url_after_keyword(query, keywords[k]) # "" THEN url_after_keyword(query, keywords[k])
    ELSE url_from_keywords(query, keywords, k + 1)

\* params["url"] of the scrape and crawl branches (mcp.py:250-390), "" when params is empty
extract_url(query, keywords) ==
    IF url_search(query) # "" THEN with_protocol(url_search(query))
    ELSE IF domain_search(query) # "" THEN with_protocol(domain_search(query))
    ELSE url_from_keywords(query, keywords, 1)

exec_news_keywords == {"news", "latest", "recent", "current events", "today", "breaking"}

NOT_CONFIGURED == " Please check your MCP configuration."

NO_RESULTS == "No search results found. Please check your search API configuration."

Envelope(tool_name, success, data, error) ==
    [tool |-> tool_name, success |-> success, data |-> data, error |-> error]

\* an envelope and what the call did: the action attempted, the URL taken from the query,
\* and the search call made (None when the search client was not called)
Outcome(result, action, url, search) ==
    [result |-> result, action |-> action, url |-> url, search |-> search]

\* the search branches that set success on a non-empty result (mcp.py:460-490, 503-531,
\* 541-575, 583-609): str(e) of an exception raised by the search client is the error
search_branch(tool_name, query, key_set, http, action) ==
    LET freshness == IF AnyIn(exec_news_keywords, lower(query)) THEN Some("d") ELSE None
        s == brave_search(key_set, freshness, DEFAULT_MAX_RETRIES, http)
    IN  Outcome(IF s.raised THEN Envelope(tool_name, FALSE, None, Some("AttributeError"))
                ELSE IF Len(s.results) > 0 THEN Envelope(tool_name, TRUE, Some(s.results), None)
                ELSE Envelope(tool_name, FALSE, None, Some(NO_RESULTS)),
                action, "", Some(s))

\* mcp.py:225-242
brave_branch(tool_name, function_name, query, key_set, http) ==
    LET freshness == IF In("news", lower(function_name)) \/ In("latest", lower(query))
                     THEN Some("d") ELSE None
        s == brave_search(key_set, freshness, DEFAULT_MAX_RETRIES, http)
    IN  Outcome(IF s.raised THEN Envelope(tool_name, FALSE, None, Some("AttributeError"))
                ELSE IF Len(s.results) > 0 THEN Envelope(tool_name, TRUE, Some(s.results), None)
                ELSE Envelope(tool_name, FALSE, None, Some("No search results found")),
                "search", "", Some(s))

\* mcp.py:419-444: a non-empty result is stored without setting success
firecrawl_search_branch(tool_name, query, key_set, http) ==
    LET freshness == IF AnyIn(exec_news_keywords, lower(query)) THEN Some("d") ELSE None
        s == brave_search(key_set, freshness, DEFAULT_MAX_RETRIES, http)
    IN  Outcome(IF s.raised THEN Envelope(tool_name, FALSE, None, Some("AttributeError"))
                ELSE IF Len(s.results) > 0 THEN Envelope(tool_name, FALSE, Some(s.results), None)
                ELSE Envelope(tool_name, FALSE, None, Some(NO_RESULTS)),
                "search", "", Some(s))

\* mcp.py:244-458
firecrawl_branch(tool_name, function_name, query, key_set, http) ==
    LET fn == lower(function_name)
        failed(msg, action, url) == Outcome(Envelope(tool_name, FALSE, None, Some(msg)), action, url, None)
    IN  IF In("scrape", fn)
        THEN LET url == extract_url(query, scrape_domain_keywords)
             IN  IF url = ""
                 THEN failed("No valid URL found in the query. Please provide a URL to scrape.",
                             "none", "")
                 ELSE failed("Web scraping for " \o url \o " is not implemented." \o NOT_CONFIGURED,
                             "scrape", url)
        ELSE IF In("crawl", fn)
        THEN LET url == extract_url(query, crawl_domain_keywords)
             IN  IF url = ""
                 THEN failed("No valid URL found in the query. Please provide a URL to crawl.",
                             "none", "")
                 ELSE failed("Web crawling for " \o url \o " is not implemented." \o NOT_CONFIGURED,
                             "crawl", url)
        ELSE IF In("search", fn)
        THEN firecrawl_search_branch(tool_name, query, key_set, http)
        ELSE IF In("deep_research", fn)
        THEN failed("Deep research integration is not implemented." \o NOT_CONFIGURED,
                    "deep_research", "")
        ELSE IF In("map", fn)
        THEN failed("Map functionality is not implemented." \o NOT_CONFIGURED, "map", "")
        ELSE failed("Firecrawl tool " \o function_name \o " is not implemented." \o NOT_CONFIGURED,
                    "none", "")

\* mcp.py:492-539: the documentation branch and an unmatched function only build params
perplexity_branch(tool_name, function_name, query, key_set, http) ==
    LET fn == lower(function_name)
    IN  IF In("documentation", fn)
        THEN Outcome(Envelope(tool_name, FALSE, None, None), "documentation", "", None)
        ELSE IF In("search", fn)
        THEN search_branch(tool_name, query, key_set, http, "search")
        ELSE IF In("chat", fn)
        THEN Outcome(Envelope(tool_name, FALSE, None,
                              Some("Perplexity chat integration is not implemented." \o NOT_CONFIGURED)),
                     "chat", "", None)
        ELSE Outcome(Envelope(tool_name, FALSE, None, None), "none", "", None)

execute_mcp_tool(tool_name, query, key_set, http) ==
    LET parts == split_first(tool_name)
    IN  IF Len(parts) # 2
        THEN Outcome(Envelope(tool_name, FALSE, None, Some("Invalid tool name format: " \o tool_name)),
                     "none", "", None)
        ELSE LET function_name == parts[1]
                 server_name == parts[2]
             IN  IF server_name = "brave-search" /\ In("search", lower(function_name))
                 THEN brave_branch(tool_name, function_name, query, key_set, http)
                 ELSE IF In("firecrawl", server_name)
                 THEN firecrawl_branch(tool_name, function_name, query, key_set, http)
                 ELSE IF In("tavily", server_name) /\ In("search", lower(function_name))
                 THEN search_branch(tool_name, query, key_set, http, "search")
                 ELSE IF In("perplexity", server_name)
                 THEN perplexity_branch(tool_name, function_name, query, key_set, http)
                 ELSE IF In("serper", server_name)
                 THEN search_branch(tool_name, query, key_set, http, "search")
                 ELSE IF In("mcp-reasoner", server_name)
                 THEN Outcome(Envelope(tool_name, FALSE, None,
                                       Some("MCP reasoner integration is not implemented." \o NOT_CONFIGURED)),
                              "reasoner", "", None)
                 ELSE IF In("search", lower(function_name))
                 THEN search_branch(tool_name, query, key_set, http, "search")
                 ELSE Outcome(Envelope(tool_name, FALSE, None,
                                       Some("Tool " \o tool_name \o " is not implemented." \o NOT_CONFIGURED)),
                              "none", "", None)

(***************************************************************************)
(* Tool selector (mcp.py:623-1114).  The selection state carries the local *)
(* list tools_used, every value assigned to st.session_state.mcp_tools_used*)
(* (published), whether st.session_state.mcp_using_search was set,         *)
(* the tool executions made inside the selector, the error reported, and   *)
(* whether the function has returned.                                      *)
(***************************************************************************)
StartState ==
    [tools_used |-> <<>>, published |-> <<>>, using_search |-> FALSE, executed |-> <<>>,
     error |-> "", returned |-> FALSE]

\* tools_used.append(tool_name)
Add(st, tool_name) == [st EXCEPT !.tools_used = Append(@, tool_name)]

Publish_last(st) ==
    [st EXCEPT !.published = Append(@, SubSeq(st.tools_used, Len(st.tools_used),
                                              Len(st.tools_used)))]

\* st.session_state.mcp_tools_used = tools_used.copy()
Publish(st) == [st EXCEPT !.published = Append(@, st.tools_used)]

\* st.session_state.mcp_using_search = True
MarkSearch(st) == [st EXCEPT !.using_search = TRUE]

Return(st) == [st EXCEPT !.returned = TRUE]

scrape_tools_of(tools) == SelectSeq(tools, LAMBDA t : In("scrape", lower(t)))

crawl_tools_of(tools) == SelectSeq(tools, LAMBDA t : In("crawl", lower(t)))

search_tools_of(tools) == SelectSeq(tools, LAMBDA t : In("search", lower(t)))

firecrawl_tools_of(tools) == SelectSeq(tools, LAMBDA t : In("firecrawl", lower(t)))

web_tools_of(tools) == SelectSeq(tools, LAMBDA t : In("scrape", lower(t)) \/ In("crawl", lower(t)))

doc_tools_of(tools) ==
    SelectSeq(tools, LAMBDA t : In("documentation", lower(t)) \/ In("perplexity", lower(t)))

research_tools_of(tools) ==
    SelectSeq(tools, LAMBDA t : In("research", lower(t)) \/ In("serper", lower(t)))

reasoner_tools_of(tools) == SelectSeq(tools, LAMBDA t : In("mcp-reasoner", t))

\* adds tools[1] when the list is not empty
AddFirst(st, tools) == IF Len(tools) > 0 THEN Add(st, tools[1]) ELSE st

RECURSIVE append_missing(_, _)
\* for tool in tools: if tool not in acc: acc.append(tool)
append_missing(acc, tools) ==
    IF Len(tools) = 0 THEN acc
    ELSE append_missing(IF InList(tools[1], acc) THEN acc ELSE Append(acc, tools[1]),
                        SubSeq(tools, 2, Len(tools)))

\* mcp.py:979-993 and 1081-1094
prioritized_search_tools(search_tools) ==
    append_missing(SelectSeq(search_tools,
                             LAMBDA t : AnyIn({"deep", "research", "comprehensive"}, lower(t))),
                   search_tools)

\* mcp.py:641-671: the scraping shortcut executes the tool inside the selector
scrape_shortcut_applies(query, available_tools) ==
    /\ In("scrape", lower(query))
    /\ \/ url_search(query) # ""
       \/ domain_search(query) # ""
       \/ In("content from", lower(query))
       \/ In("website", lower(query))
    /\ Len(scrape_tools_of(available_tools)) > 0

\* mcp.py:673-703
crawl_shortcut_applies(query, available_tools) ==
    /\ In("crawl", lower(query))
    /\ \/ url_search(query) # ""
       \/ domain_search(query) # ""
       \/ In("website", lower(query))
       \/ In("site", lower(query))
    /\ Len(crawl_tools_of(available_tools)) > 0

shortcut(st, tool_name, query, key_set, http) ==
    Return([Publish(Add(st, tool_name)) EXCEPT
                !.executed = Append(@, execute_mcp_tool(tool_name, query, key_set, http))])

\* mcp.py:730-737, "" when no server is requested
explicit_tool_request(query_lower, available_servers) ==
    IF \E i \in 1..Len(available_servers) : In("use " \o lower(available_servers[i]), query_lower)
    THEN available_servers[CHOOSE i \in 1..Len(available_servers) :
            /\ In("use " \o lower(available_servers[i]), query_lower)
            /\ \A j \in 1..(i - 1) : ~In("use " \o lower(available_servers[j]), query_lower)]
    ELSE ""

RECURSIVE category_requested_from(_, _)
\* the loop of mcp.py:741-747 from the i-th category on, "" when no category is requested
category_requested_from(i, query_lower) ==
    IF i > Len(CategoryOrder) THEN ""
    ELSE IF \E k \in intent_categories(CategoryOrder[i]) : In("use " \o k, query_lower)
    THEN CategoryOrder[i]
    ELSE category_requested_from(i + 1, query_lower)

\* mcp.py:739-747
explicit_function_request(query_lower) == category_requested_from(1, query_lower)

\* mcp.py:755-797: the tool of the requested server
pick_requested(st, server, requested_tools, query_lower) ==
    IF server = "mcp-reasoner"
    THEN IF In("breakdown", query_lower) \/ In("complex task", query_lower)
         THEN AddFirst(st, SelectSeq(requested_tools, LAMBDA t : In("breakdown_complex_task", t)))
         ELSE IF In("equation", query_lower) \/ In("formula", query_lower) \/ In("math", query_lower)
         THEN AddFirst(st, SelectSeq(requested_tools, LAMBDA t : In("solve_equations", t)))
         ELSE Add(st, requested_tools[1])
    ELSE IF server = "firecrawl-mcp"
    THEN IF AnyIn(KW_web_scraping, query_lower)
         THEN AddFirst(st, scrape_tools_of(requested_tools))
         ELSE IF AnyIn(KW_web_crawling, query_lower)
         THEN AddFirst(st, crawl_tools_of(requested_tools))
         ELSE Add(st, requested_tools[1])
    ELSE Add(st, requested_tools[1])

\* mcp.py:751-816, for the server the query names
requested_server_step(st, server, requested_tools, query_lower) ==
    IF server = "" \/ Len(requested_tools) = 0 THEN st
    ELSE IF ~In("search", lower(requested_tools[1]))
    THEN Return(Publish(pick_requested(st, server, requested_tools, query_lower)))
    ELSE Publish(pick_requested(st, server, requested_tools, query_lower))

\* mcp.py:730-737 and 749-816
explicit_tool_step(st, query_lower, available_tools, available_servers) ==
    CHOOSE result \in
        {requested_server_step(st, server, SelectSeq(available_tools, LAMBDA t : In(server, t)),
                               query_lower) :
            server \in {explicit_tool_request(query_lower, available_servers)}} : TRUE

category_tools(category, available_tools) ==
    CASE category = "web_scraping" -> scrape_tools_of(available_tools)
      [] category = "web_crawling" -> crawl_tools_of(available_tools)
      [] category = "search" -> search_tools_of(available_tools)
      [] category = "news" ->
            SelectSeq(available_tools, LAMBDA t : In("news", lower(t)) \/ In("tavily", lower(t)))
      [] category = "documentation" -> doc_tools_of(available_tools)
      [] category = "research" -> research_tools_of(available_tools)
      [] category = "reasoning" -> reasoner_tools_of(available_tools)

\* mcp.py:818-866
explicit_function_step(st, query_lower, available_tools) ==
    IF Len(st.tools_used) > 0 THEN st
    ELSE CHOOSE result \in
            {IF category = "" THEN st
             ELSE IF Len(category_tools(category, available_tools)) > 0
             THEN Return(Publish(Add(st, category_tools(category, available_tools)[1])))
             ELSE st :
                category \in {explicit_function_request(query_lower)}} : TRUE

\* mcp.py:871-919
url_step(st, query_lower, available_tools) ==
    LET web_tools == IF Len(firecrawl_tools_of(available_tools)) = 0
                     THEN web_tools_of(available_tools)
                     ELSE firecrawl_tools_of(available_tools)
    IN  IF /\ \/ wide_url_found(query_lower)
              \/ domain_search(query_lower) # ""
              \/ AnyIn(KW_web_scraping, query_lower)
           /\ Len(st.tools_used) = 0
           /\ Len(web_tools) > 0
        THEN IF AnyIn(KW_web_crawling, query_lower)
             THEN Publish(Add(st, IF Len(crawl_tools_of(web_tools)) > 0
                                  THEN crawl_tools_of(web_tools)[1] ELSE web_tools[1]))
             ELSE Publish(Add(st, IF Len(scrape_tools_of(web_tools)) > 0
                                  THEN scrape_tools_of(web_tools)[1] ELSE web_tools[1]))
        ELSE st

search_step_untoggled(st, query_lower, available_tools, web_search) ==
    IF /\ Len(st.tools_used) = 0
       /\ AnyIn(KW_search, query_lower)
       /\ Len(search_tools_of(available_tools)) > 0
    THEN MarkSearch(Publish(Add(st, search_tools_of(available_tools)[1])))
    ELSE st

\* mcp.py:921-937
search_step(st, query_lower, available_tools, web_search) ==
    IF /\ Len(st.tools_used) = 0
       /\ web_search
       /\ AnyIn(KW_search, query_lower)
       /\ Len(search_tools_of(available_tools)) > 0
    THEN MarkSearch(Publish(Add(st, search_tools_of(available_tools)[1])))
    ELSE st

\* mcp.py:939-965
reasoning_step(st, query_lower, available_tools) ==
    LET reasoner_tools == reasoner_tools_of(available_tools)
    IN  IF /\ AnyIn(KW_reasoning, query_lower)
           /\ ~\E i \in 1..Len(st.tools_used) : In("mcp-reasoner", st.tools_used[i])
           /\ Len(reasoner_tools) > 0
        THEN IF In("breakdown", query_lower) \/ In("complex task", query_lower)
             THEN Publish(AddFirst(st, SelectSeq(reasoner_tools,
                                                 LAMBDA t : In("breakdown_complex_task", t))))
             ELSE IF In("equation", query_lower) \/ In("formula", query_lower)
             THEN Publish(AddFirst(st, SelectSeq(reasoner_tools,
                                                 LAMBDA t : In("solve_equations", t))))
             ELSE Publish(Add(st, reasoner_tools[1]))
        ELSE st

\* mcp.py:967-1003
news_step(st, query_lower, available_tools) ==
    LET named == SelectSeq(available_tools, LAMBDA t : In("news", lower(t)))
        news_tools == IF Len(named) = 0
                      THEN prioritized_search_tools(search_tools_of(available_tools))
                      ELSE named
    IN  IF /\ AnyIn(KW_news, query_lower)
           /\ Len(news_tools) > 0
           /\ ~InList(news_tools[1], st.tools_used)
        THEN MarkSearch(Publish(Add(st, news_tools[1])))
        ELSE st

\* mcp.py:1005-1015
documentation_step(st, query_lower, available_tools) ==
    LET code_tools == doc_tools_of(available_tools)
    IN  IF /\ \/ AnyIn(KW_documentation, query_lower)
              \/ In("code", query_lower)
              \/ In("programming", query_lower)
           /\ Len(code_tools) > 0
           /\ ~InList(code_tools[1], st.tools_used)
        THEN Publish(Add(st, code_tools[1]))
        ELSE st

\* mcp.py:1017-1056
web_step(st, query_lower, available_tools) ==
    LET firecrawl == firecrawl_tools_of(available_tools)
        web_related_query ==
            \/ AnyIn(KW_web_scraping \cup KW_web_crawling, query_lower)
            \/ domain_search(query_lower) # ""
            \/ content_from_found(query_lower)
            \/ In("scrape", query_lower)
    IN  IF /\ web_related_query
           /\ ~\E i \in 1..Len(st.tools_used) :
                    \/ In("scrape", st.tools_used[i])
                    \/ In("crawl", st.tools_used[i])
                    \/ In("firecrawl", st.tools_used[i])
        THEN IF Len(firecrawl) > 0
             THEN Publish(Add(st, IF Len(scrape_tools_of(firecrawl)) > 0
                                  THEN scrape_tools_of(firecrawl)[1] ELSE firecrawl[1]))
             ELSE IF Len(web_tools_of(available_tools)) > 0
             THEN Publish(Add(st, web_tools_of(available_tools)[1]))
             ELSE st
        ELSE st

\* mcp.py:1058-1068
research_step(st, query_lower, available_tools) ==
    IF /\ AnyIn(KW_research, query_lower)
       /\ ~\E i \in 1..Len(st.tools_used) : In("research", st.tools_used[i])
       /\ Len(research_tools_of(available_tools)) > 0
    THEN Publish(Add(st, research_tools_of(available_tools)[1]))
    ELSE st

\* the fallback with a fixed search tool instead of one of the available tools (a fault
\* that C3 has to exclude)
fallback_step_fixed_tool(st, query_lower, available_tools, web_search) ==
    IF Len(st.tools_used) = 0 /\ web_search
    THEN MarkSearch(Publish(Add(st, "search_brave-search")))
    ELSE st

\* mcp.py:1070-1101
fallback_step(st, query_lower, available_tools, web_search) ==
    LET search_tools == search_tools_of(available_tools)
    IN  IF Len(st.tools_used) = 0 /\ web_search /\ Len(search_tools) > 0
        THEN MarkSearch(Publish(Add(st,
                IF AnyIn(KW_news, query_lower)
                THEN prioritized_search_tools(search_tools)[1] ELSE search_tools[1])))
        ELSE st

\* the k-th rule of mcp.py:749-1101
selection_step(k, st, query_lower, available_tools, available_servers, web_search) ==
    CASE k = 1 -> explicit_tool_step(st, query_lower, available_tools, available_servers)
      [] k = 2 -> explicit_function_step(st, query_lower, available_tools)
      [] k = 3 -> url_step(st, query_lower, available_tools)
      [] k = 4 -> search_step(st, query_lower, available_tools, web_search)
      [] k = 5 -> reasoning_step(st, query_lower, available_tools)
      [] k = 6 -> news_step(st, query_lower, available_tools)
      [] k = 7 -> documentation_step(st, query_lower, available_tools)
      [] k = 8 -> web_step(st, query_lower, available_tools)
      [] k = 9 -> research_step(st, query_lower, available_tools)
      [] k = 10 -> fallback_step(st, query_lower, available_tools, web_search)

RECURSIVE run_steps(_, _, _, _, _, _)
\* the rules from the k-th on, in the order of the source, until one returns
run_steps(k, st, query_lower, available_tools, available_servers, web_search) ==
    IF k > 10 \/ st.returned THEN st
    ELSE CHOOSE result \in
            {run_steps(k + 1, next, query_lower, available_tools, available_servers, web_search) :
                next \in {selection_step(k, st, query_lower, available_tools, available_servers,
                                         web_search)}} : TRUE

\* mcp.py:705-1114
classify(query, available_tools, available_servers, web_search) ==
    IF Len(available_tools) = 0
    THEN Return([StartState EXCEPT !.error = "No MCP tools are available"])
    ELSE CHOOSE result \in
            {Return(run_steps(1, StartState, query_lower, available_tools, available_servers,
                              web_search)) : query_lower \in {lower(query)}} : TRUE

\* mcp.py:623-1114 on the tools the registry yields
select_from(query, available_tools, available_servers, web_search, key_set, http) ==
    IF scrape_shortcut_applies(query, available_tools)
    THEN shortcut(StartState, scrape_tools_of(available_tools)[1], query, key_set, http)
    ELSE IF crawl_shortcut_applies(query, available_tools)
    THEN shortcut(StartState, crawl_tools_of(available_tools)[1], query, key_set, http)
    ELSE classify(query, available_tools, available_servers, web_search)

select_mcp_tools(query, settings, order, web_search, key_set, http) ==
    CHOOSE result \in
        {select_from(query, available_tools, get_available_mcp_servers(settings), web_search,
                     key_set, http) :
            available_tools \in {get_available_mcp_tools(settings, order)}} : TRUE

(***************************************************************************)
(* generate_response after the tools have run (ai.py:93-434): the context  *)
(* search, the rendering of tool results into the prompt, the model call   *)
(* and the post-processing of the reply.                                   *)
(***************************************************************************)
\* str(n) of a natural number
RECURSIVE ToStr(_)
ToStr(n) == IF n < 10 THEN Char(DigitChars, n + 1) ELSE ToStr(n \div 10) \o Char(DigitChars, (n % 10) + 1)

\* sep.join(parts)
RECURSIVE join(_, _)
join(sep, parts) ==
    IF Len(parts) = 0 THEN ""
    ELSE IF Len(parts) = 1 THEN parts[1]
    ELSE parts[1] \o sep \o join(sep, Tail(parts))

\* s.split(sep)
RECURSIVE split(_, _)
split(s, sep) ==
    IF Find(s, sep) = 0 THEN <<s>>
    ELSE <<SubSeq(s, 1, Find(s, sep) - 1)>>
         \o split(SubSeq(s, Find(s, sep) + Len(sep), Len(s)), sep)

\* s.rstrip(c) for a single character c
RECURSIVE rstrip_char(_, _)
rstrip_char(s, c) ==
    IF Len(s) > 0 /\ Char(s, Len(s)) = c THEN rstrip_char(SubSeq(s, 1, Len(s) - 1), c) ELSE s

\* ai.py:121
time_sensitive_keywords ==
    {"news", "recent", "latest", "today", "current", "breaking", "update", "development"}

\* ai.py:98-111: whether the context search runs
use_brave_search(use_search, use_mcp, tools_used) ==
    IF use_mcp
    THEN use_search /\ \E i \in 1..Len(tools_used) : In("search_brave-search", tools_used[i])
    ELSE use_search

\* ai.py:122-125
context_freshness(query) ==
    IF AnyIn(time_sensitive_keywords, lower(query)) THEN Some("d") ELSE None

\* search.py:100-108: the context lines of a non-empty result list (no record of the
\* responses modelled carries a published_date)
format_search_results_for_context(search_results) ==
    join("\n", [i \in 1..Len(search_results) |->
                    "[" \o ToStr(i) \o "] " \o search_results[i].title \o ": "
                    \o search_results[i].snippet \o " (Source: " \o search_results[i].url
                    \o ")"])

\* the context search without the handler of ai.py:149 (a fault that C17 has to exclude)
context_search_uncaught(query, key_set, http) ==
    LET s == brave_search(key_set, context_freshness(query), DEFAULT_MAX_RETRIES, http)
    IN  [search |-> s,
         raised |-> s.raised,
         is_news_query |-> context_freshness(query) # None,
         context |-> IF ~s.raised /\ Len(s.results) > 0
                     THEN format_search_results_for_context(s.results) ELSE "",
         result_count |-> IF ~s.raised THEN Len(s.results) ELSE 0]

\* ai.py:114-150: the search call and what the try block leaves behind; an exception of the
\* search client is caught at ai.py:149 and leaves the context empty
context_search(query, key_set, http) ==
    LET s == brave_search(key_set, context_freshness(query), DEFAULT_MAX_RETRIES, http)
    IN  [search |-> s,
         raised |-> FALSE,
         is_news_query |-> context_freshness(query) # None,
         context |-> IF ~s.raised /\ Len(s.results) > 0
                     THEN format_search_results_for_context(s.results) ELSE "",
         result_count |-> IF ~s.raised THEN Len(s.results) ELSE 0]

\* ai.py:360-364: the pair of one context line
reference_of(line) ==
    LET parts == split(line, " (Source: ")
    IN  [title |-> IF In("] ", parts[1])
                   THEN SubSeq(parts[1], Find(parts[1], "] ") + 2, Len(parts[1]))
                   ELSE parts[1],
         url |-> rstrip_char(parts[2], ")")]

\* ai.py:357-364: the (title, url) pairs parsed back from the context lines
local_search_results(context) ==
    LET lines == SelectSeq(split(context, "\n"),
                           LAMBDA line : /\ StartsWith(line, "[")
                                         /\ In("] ", line)
                                         /\ In(" (Source: ", line)
                                         /\ Len(split(line, " (Source: ")) = 2)
    IN  [i \in 1..Len(lines) |-> reference_of(lines[i])]

\* ai.py:374-376
references_section(results) ==
    "\n\n## References\n"
    \o join("", [i \in 1..Len(results) |->
                    "[" \o ToStr(i) \o "] " \o results[i].title \o " - " \o results[i].url
                    \o "\n"])

\* ai.py:383
CITATION_NOTE ==
    "\n\n**Note: The information provided should include citations to the sources above. Please ask for clarification if sources aren't properly cited.**"

\* ai.py:408
REASONER_NOTE ==
    "\n\n---\n*Note: Reasoning is provided in this separate section and should not be incorporated into the main response text.*"

\* ai.py:372
mentions_references(content) ==
    In("References", content) \/ In("REFERENCES", content) \/ In("references", lower(content))

\* the section appended without the test for an existing one (a fault that C13 has to
\* exclude)
add_references_unchecked(content, context) ==
    IF context = "" \/ Len(local_search_results(context)) = 0 THEN content
    ELSE content \o references_section(local_search_results(context))

\* ai.py:352-383: the References section or the note, when search context was used
add_references(content, context) ==
    IF context = "" \/ Len(local_search_results(context)) = 0 THEN content
    ELSE IF ~mentions_references(content)
         THEN content \o references_section(local_search_results(context))
    ELSE IF ~AnyIn({"[1]", "[2]", "[3]"}, content) THEN content \o CITATION_NOTE
    ELSE content

\* ai.py:395
tool_keywords == {"tool", "mcp", "search", "tavily", "brave", "perplexity", "serper", "firecrawl"}

\* ai.py:398
usage_keywords == {"used", "using", "utilized", "provided by", "powered by", "via"}

\* ai.py:398: the line is skipped
mentions_tool_usage(line) ==
    AnyIn(tool_keywords, lower(line)) /\ AnyIn(usage_keywords, lower(line))

\* the filter without line.lower() (a fault that C15 has to exclude)
filter_tool_mentions_cased(content, use_mcp, tools_used) ==
    IF use_mcp /\ Len(tools_used) > 0
    THEN join("\n", SelectSeq(split(content, "\n"),
                              LAMBDA line : ~(AnyIn(tool_keywords, line)
                                              /\ AnyIn(usage_keywords, line))))
    ELSE content

\* ai.py:389-403: the lines that mention tool usage are removed when tools were used
filter_tool_mentions(content, use_mcp, tools_used) ==
    IF use_mcp /\ Len(tools_used) > 0
    THEN join("\n", SelectSeq(split(content, "\n"), LAMBDA line : ~mentions_tool_usage(line)))
    ELSE content

\* ai.py:351-408: the post-processing of the reply, with its intermediate texts
post_process(content, context, use_mcp, tools_used) ==
    LET referenced == add_references(content, context)
        filtered == filter_tool_mentions(referenced, use_mcp, tools_used)
    IN  [referenced |-> referenced,
         filtered |-> filtered,
         content |-> IF use_mcp /\ Len(tools_used) > 0 /\ In("mcp-reasoner", join(" ", tools_used))
                     THEN filtered \o REASONER_NOTE ELSE filtered]

\* ai.py:182, 204
TRUNCATION_MARKER == "... [Content truncated]"

\* ai.py:181
SCRAPE_CONTENT_CAP == 2000

\* ai.py:203
PAGE_CONTENT_CAP == 1000

\* the truncation that cuts one character early (a fault that C16 has to exclude)
truncated_short(content, cap) ==
    IF Len(content) >= cap THEN SubSeq(content, 1, cap - 1) \o TRUNCATION_MARKER ELSE content

\* ai.py:180-182, 202-204
truncated(content, cap) ==
    IF Len(content) > cap THEN SubSeq(content, 1, cap) \o TRUNCATION_MARKER ELSE content

\* ai.py:168-172: the lines of a list of search records (the records of the search client
\* have no description)
render_records(data) ==
    join("", [i \in 1..Len(data) |->
                "[" \o ToStr(i) \o "] " \o data[i].title \o " - " \o data[i].url \o "\n"])

\* ai.py:187-190
render_links(links) ==
    IF Len(links) = 0 THEN ""
    ELSE "\nLinks from the page:\n"
         \o join("", [i \in 1..(IF Len(links) < 5 THEN Len(links) ELSE 5) |->
                        "- " \o links[i].text \o " (" \o links[i].url \o ")\n"])

\* ai.py:165-210 (and 253-298): the prompt text of one tool result and the contents
\* rendered into it; data is a list of records, a scrape payload or a crawl payload
render_tool_result(result) ==
    LET data == result.data
        shown == IF data.kind = "pages" /\ Len(data.pages) > 3
                 THEN SubSeq(data.pages, 1, 3)
                 ELSE IF data.kind = "pages" THEN data.pages ELSE <<>>
        contents == IF data.kind = "scrape"
                    THEN <<truncated(data.content, SCRAPE_CONTENT_CAP)>>
                    ELSE [i \in 1..Len(shown) |-> truncated(shown[i].content, PAGE_CONTENT_CAP)]
    IN  [contents |-> contents,
         text |-> "Tool: " \o result.tool \o "\n"
                  \o (CASE data.kind = "records" -> render_records(data.records)
                        [] data.kind = "scrape" ->
                            "Scraped content from: " \o data.title \o " (" \o data.url \o ")\n\n"
                            \o contents[1] \o "\n" \o render_links(data.links)
                        [] data.kind = "pages" /\ Len(data.pages) > 0 ->
                            "Crawled content from: " \o data.base_url \o "\n"
                            \o "Pages crawled: " \o ToStr(Len(data.pages)) \o "\n\n"
                            \o join("", [i \in 1..Len(shown) |->
                                            "Page " \o ToStr(i) \o ": " \o shown[i].title \o " ("
                                            \o shown[i].url \o ")\n" \o contents[i] \o "\n\n"])
                        [] OTHER -> "")
                  \o "\n"]
(***************************************************************************)
(* Inputs of the model: settings files, user queries, HTTP behaviours.     *)
(***************************************************************************)
Server(name, autoApprove, alwaysAllow) ==
    [name |-> name, disabled |-> FALSE, autoApprove |-> autoApprove, alwaysAllow |-> alwaysAllow]

\* config.py:108-131
DefaultSettings ==
    [mcpServers |-> <<
        Server("brave-search", <<"search">>, <<>>),
        Server("firecrawl-mcp", <<"firecrawl_scrape", "firecrawl_crawl", "firecrawl_search",
                                  "firecrawl_map", "firecrawl_deep_research">>, <<>>)>>]

\* settings files a user can write (the server names are those of config.py:151-161)
ResearchSettings ==
    [mcpServers |-> <<
        Server("mcp-reasoner", <<"breakdown_complex_task", "solve_equations">>, <<>>),
        Server("Serper-search-mcp", <<"google_search">>, <<"deep-research">>),
        Server("perplexity-mcp", <<"get_documentation">>, <<>>)>>]

WebSettings ==
    [mcpServers |-> <<
        Server("firecrawl-mcp", <<"scrape", "search">>, <<>>),
        Server("brave-search", <<"search">>, <<"search">>),
        Server("tavily-mcp", <<"tavily-search">>, <<>>)>>]

SettingsFiles == {DefaultSettings, ResearchSettings, WebSettings}

Queries == {
    "What happened in the news today?",
    "scrape https://example.com for headlines",
    "use mcp-reasoner to solve x^2=4",
    "use brave-search to scrape example.com",
    "use firecrawl-mcp to crawl www.foo.org.",
    "use Serper-search-mcp here",
    "use search on tla",
    "research what is tla",
    "python docs",
    "hello"}

\* the number of items of a successful response body is at most MaxItems
MaxItems == 1

Item(i) == [title |-> "t", url |-> "u", description |-> "d"]

Ok(k) == [kind |-> "ok", items |-> [i \in 1..k |-> Item(i)]]

RequestException == [kind |-> "request_exception", items |-> <<>>]

BadBody == [kind |-> "bad_body", items |-> <<>>]

\* the outcomes after which brave_search makes no further request
Terminals == {Ok(k) : k \in 0..MaxItems} \cup {BadBody}

Fails(k) == [i \in 1..k |-> RequestException]

\* the behaviours of the search API that a call with max_retries = n can observe
HttpScripts(n) == {Fails(k) \o <<t>> : k \in 0..(n - 1), t \in Terminals} \cup {Fails(n)}

\* the behaviours of the search API within a chat turn: every way a call can end, after
\* no failed attempt, after one, and after all of them
TurnScripts ==
    {<<t>> : t \in Terminals} \cup {Fails(1) \o <<Ok(MaxItems)>>, Fails(DEFAULT_MAX_RETRIES)}

\* the largest max_retries with which brave_search is called on its own
MaxRetries == 4

(***************************************************************************)
(* State.                                                                  *)
(***************************************************************************)
VARIABLES
    mcp_settings,         \* st.session_state.mcp_settings
    saved_mcp_settings,   \* the settings file written by save_mcp_settings
    hash_order,           \* the set iteration order of the process
    api_key_set,          \* whether BRAVE_API_KEY is set
    enable_web_search,    \* st.session_state.enable_web_search
    enable_mcp,           \* st.session_state.enable_mcp
    pc,                   \* position of the turn in generate_response
    user_message,         \* the query of the turn
    selection,            \* what select_mcp_tools did in the turn
    mcp_processing,       \* st.session_state.mcp_processing
    mcp_tools_used,       \* st.session_state.mcp_tools_used
    mcp_using_search,     \* st.session_state.mcp_using_search (FALSE while unset)
    mcp_tool_results,     \* st.session_state.mcp_tool_results (empty while unset)
    tool_results,         \* the local list tool_results of generate_response
    next_tool,            \* index of the next selected tool to execute
    last_outcome,         \* the most recent execute_mcp_tool call, None before the first
    context_run,          \* the context search of generate_response, None when it did not run
    is_news_query,        \* st.session_state.is_news_query (FALSE while unset)
    completion,           \* the reply of the model, None before it arrives
    response,             \* the record generate_response returns, None before the return
    messages,             \* st.session_state.messages
    conversation_id,      \* st.session_state.conversation_id
    conversation_title,   \* st.session_state.conversation_title
    conversations,        \* st.session_state.conversations
    conversations_file,   \* the content of conversations.json
    aliased,              \* whether messages is the list object held by conversations
    uuids,                \* the number of conversation ids issued so far
    turns,                \* the number of chat inputs handled so far
    search_call,          \* arguments of a direct brave_search call, None when there is none
    search_run,           \* what that call did, None before it returns
    unit_call,            \* a code fragment of generate_response applied on its own and its
                          \* arguments, None when there is none
    unit_run              \* the results of its successive applications

vars == <<mcp_settings, saved_mcp_settings, hash_order, api_key_set, enable_web_search,
          enable_mcp, pc, user_message, selection, mcp_processing, mcp_tools_used,
          mcp_using_search, mcp_tool_results, tool_results, next_tool, last_outcome,
          context_run, is_news_query, completion, response, messages, conversation_id,
          conversation_title, conversations, conversations_file, aliased, uuids, turns, search_call,
          search_run, unit_call, unit_run>>

config_vars == <<mcp_settings, saved_mcp_settings, hash_order, api_key_set, enable_web_search,
                 enable_mcp>>

reply_vars == <<context_run, is_news_query, completion, response>>

chat_vars == <<messages, conversation_id, conversation_title, conversations,
               conversations_file, aliased, uuids, turns>>

turn_vars == <<pc, user_message, selection, mcp_processing, mcp_tools_used, mcp_using_search,
               mcp_tool_results, tool_results, next_tool, last_outcome, reply_vars, chat_vars>>

\* the variables of the calls made outside a turn
search_vars == <<search_call, search_run, unit_call, unit_run>>

\* app.py:224, 431, 528: the n-th conversation id that str(uuid.uuid4()) gives the session
Uuid(n) == "c" \o ToStr(n)

\* app.py:228-230
SYSTEM_MESSAGE ==
    [role |-> "system",
     content |-> "You are a highly intelligent AI assistant powered by the Grok model from xAI."]

\* session state after the start-up code of app.py:210-265 (DEFAULT_SETTINGS of config.py:141-148)
InitTurn ==
    /\ enable_web_search = TRUE
    /\ enable_mcp = FALSE
    /\ pc = "Idle"
    /\ user_message = ""
    /\ selection = StartState
    /\ mcp_processing = FALSE
    /\ mcp_tools_used = <<>>
    /\ mcp_using_search = FALSE
    /\ mcp_tool_results = <<>>
    /\ tool_results = <<>>
    /\ next_tool = 1
    /\ last_outcome = None
    /\ context_run = None
    /\ is_news_query = FALSE
    /\ completion = None
    /\ response = None
    /\ messages = <<SYSTEM_MESSAGE>>
    /\ conversation_id = Uuid(1)
    /\ conversation_title = "New Conversation"
    /\ aliased = FALSE
    /\ uuids = 1
    /\ turns = 0

\* conversations.json is absent (conversation.py:17-18)
NoConversations == [id \in {} |-> <<>>]

\* the session of a first start: there is no conversations file
InitSession ==
    /\ InitTurn
    /\ conversations_file = NoConversations
    /\ conversations = conversations_file

Init ==
    /\ mcp_settings \in SettingsFiles
    /\ saved_mcp_settings = mcp_settings
    /\ hash_order \in HashOrders
    /\ api_key_set \in BOOLEAN
    /\ InitSession
    /\ search_call = None
    /\ search_run = None
    /\ unit_call = None
    /\ unit_run = <<>>

(***************************************************************************)
(* Sidebar toggles (ui.py:295-380), between turns.                         *)
(***************************************************************************)
\* ui.py:355-380: one server toggle changes, the settings are saved
ToggleServer(i) ==
    /\ pc = "Idle"
    /\ enable_mcp
    /\ i \in 1..Len(mcp_settings.mcpServers)
    /\ mcp_settings' = [mcp_settings EXCEPT !.mcpServers[i].disabled = ~@]
    /\ saved_mcp_settings' = mcp_settings'
    /\ UNCHANGED <<hash_order, api_key_set, enable_web_search, enable_mcp>>
    /\ UNCHANGED turn_vars
    /\ UNCHANGED search_vars

\* ui.py:309-318
ToggleWebSearch ==
    /\ pc = "Idle"
    /\ enable_web_search' = ~enable_web_search
    /\ UNCHANGED <<mcp_settings, saved_mcp_settings, hash_order, api_key_set, enable_mcp>>
    /\ UNCHANGED turn_vars
    /\ UNCHANGED search_vars

\* ui.py:320-329
ToggleMcp ==
    /\ pc = "Idle"
    /\ enable_mcp' = ~enable_mcp
    /\ UNCHANGED <<mcp_settings, saved_mcp_settings, hash_order, api_key_set, enable_web_search>>
    /\ UNCHANGED turn_vars
    /\ UNCHANGED search_vars

(***************************************************************************)
(* The turn (ai.py:9-48): reset, selection, execution of the selected      *)
(* tools, storing of the tool results.                                     *)
(***************************************************************************)
\* ai.py:23-25
GenerateResponse(query) ==
    /\ pc = "Idle"
    /\ user_message' = query
    /\ mcp_processing' = enable_mcp
    /\ mcp_tools_used' = <<>>
    /\ pc' = IF enable_mcp THEN "Selecting" ELSE "Assembling"
    /\ UNCHANGED <<selection, mcp_using_search, mcp_tool_results, tool_results, next_tool,
                   last_outcome>>
    /\ UNCHANGED reply_vars
    /\ UNCHANGED config_vars
    /\ UNCHANGED search_vars

\* whether a call of the tool reaches requests.get, so that the behaviour of the API matters
makes_requests(tool_name, query) ==
    api_key_set /\
    execute_mcp_tool(tool_name, query, api_key_set, Fails(DEFAULT_MAX_RETRIES)).search # None

\* the successful envelopes among the executions a selection made (mcp.py:665-669)
successes(executed) ==
    [i \in 1..Len(SelectSeq(executed, LAMBDA o : o.result.success)) |->
        SelectSeq(executed, LAMBDA o : o.result.success)[i].result]

\* the effects of a selection on the session state
Selected(sel) ==
    /\ selection' = sel
    /\ mcp_tools_used' = IF Len(sel.published) > 0 THEN sel.published[Len(sel.published)]
                         ELSE mcp_tools_used
    /\ mcp_using_search' = (mcp_using_search \/ sel.using_search)
    /\ mcp_tool_results' = mcp_tool_results \o successes(sel.executed)
    /\ last_outcome' = IF Len(sel.executed) > 0 THEN Some(sel.executed[Len(sel.executed)])
                       ELSE last_outcome
    /\ tool_results' = <<>>
    /\ next_tool' = 1
    /\ pc' = "Executing"

\* whether the selection itself executes a tool (mcp.py:641-703), so that the behaviour of
\* the API can matter to it
selection_executes(query, settings, order) ==
    \/ scrape_shortcut_applies(query, get_available_mcp_tools(settings, order))
    \/ crawl_shortcut_applies(query, get_available_mcp_tools(settings, order))

\* ai.py:36, mcp.py:623-1114
SelectMcpTools ==
    /\ pc = "Selecting"
    /\ \E http \in IF api_key_set /\ selection_executes(user_message, mcp_settings, hash_order)
                    THEN TurnScripts
                    ELSE {Fails(DEFAULT_MAX_RETRIES)} :
            \E sel \in {select_mcp_tools(user_message, mcp_settings, hash_order,
                                         enable_web_search, api_key_set, http)} :
                Selected(sel)
    /\ UNCHANGED <<user_message, mcp_processing>>
    /\ UNCHANGED reply_vars
    /\ UNCHANGED chat_vars
    /\ UNCHANGED config_vars
    /\ UNCHANGED search_vars

keep_every(results, result) == Append(results, result)

\* ai.py:44-45: only a successful envelope is appended to the turn's tool results
keep_success(results, result) ==
    IF result.success THEN Append(results, result) ELSE results

\* the body of the loop of ai.py:42-45 for the tool at next_tool
ExecuteNext ==
    /\ pc = "Executing"
    /\ next_tool <= Len(selection.tools_used)
    /\ \E http \in IF makes_requests(selection.tools_used[next_tool], user_message)
                    THEN TurnScripts
                    ELSE {Fails(DEFAULT_MAX_RETRIES)} :
            \E outcome \in {execute_mcp_tool(selection.tools_used[next_tool], user_message,
                                              api_key_set, http)} :
                /\ last_outcome' = Some(outcome)
                /\ tool_results' = keep_success(tool_results, outcome.result)

advance_same(i) == i

\* ai.py:42: the for loop moves on to the next selected tool
advance(i) == i + 1

\* ai.py:42-45: one iteration of the loop over the selected tools
ExecuteMcpTool ==
    /\ ExecuteNext
    /\ next_tool' = advance(next_tool)
    /\ UNCHANGED <<pc, user_message, selection, mcp_processing, mcp_tools_used,
                   mcp_using_search, mcp_tool_results>>
    /\ UNCHANGED reply_vars
    /\ UNCHANGED chat_vars
    /\ UNCHANGED config_vars
    /\ UNCHANGED search_vars

\* ai.py:48
StoreToolResults ==
    /\ pc = "Executing"
    /\ next_tool > Len(selection.tools_used)
    /\ mcp_tool_results' = tool_results
    /\ pc' = "Assembling"
    /\ UNCHANGED <<user_message, selection, mcp_processing, mcp_tools_used, mcp_using_search,
                   tool_results, next_tool, last_outcome>>
    /\ UNCHANGED reply_vars
    /\ UNCHANGED chat_vars
    /\ UNCHANGED config_vars
    /\ UNCHANGED search_vars

\* ai.py:93-150: the context search; the locals selected_tools and tool_results are not
\* read after ai.py:48 and are dropped here
ContextSearch ==
    /\ pc = "Assembling"
    /\ IF use_brave_search(enable_web_search, enable_mcp, mcp_tools_used)
       THEN \E http \in IF api_key_set THEN TurnScripts ELSE {Fails(DEFAULT_MAX_RETRIES)} :
                \E run \in {context_search(user_message, api_key_set, http)} :
                    /\ context_run' = Some(run)
                    /\ is_news_query' = (is_news_query \/ run.is_news_query)
                    /\ pc' = IF run.raised THEN "Raised" ELSE "AwaitingModel"
       ELSE /\ context_run' = None
            /\ UNCHANGED is_news_query
            /\ pc' = "AwaitingModel"
    /\ selection' = StartState
    /\ tool_results' = <<>>
    /\ next_tool' = 1
    /\ last_outcome' = None
    /\ UNCHANGED <<user_message, mcp_processing, mcp_tools_used, mcp_using_search,
                   mcp_tool_results, completion, response>>
    /\ UNCHANGED chat_vars
    /\ UNCHANGED config_vars
    /\ UNCHANGED search_vars

\* the replies of the model within a turn
ModelReplies == {"Paris [1].", "I used the search tool.\nParis."}

\* what the model call of ai.py:325-349 can do: XAI_API_KEY is not set, the API call
\* raises, or a reply arrives
ModelOutcomes ==
    {[kind |-> "no_client", text |-> ""], [kind |-> "error", text |-> "Connection error."]}
    \cup {[kind |-> "reply", text |-> r] : r \in ModelReplies}

\* ai.py:327-331
NO_CLIENT_RESPONSE ==
    [content |-> "Error: xAI API key not set. Please set XAI_API_KEY in your environment.",
     reasoning |-> "", mcp_tools_used |-> <<>>]

\* ai.py:430-434
error_response(text) ==
    [content |-> "Sorry, I encountered an error while processing your request: " \o text,
     reasoning |-> "", mcp_tools_used |-> <<>>]

\* ai.py:323-349 and 422-434: the model call; without a client the function returns at
\* once, an exception is answered with the apology
CallModel ==
    /\ pc = "AwaitingModel"
    /\ \E outcome \in ModelOutcomes :
            /\ completion' = Some(outcome)
            /\ CASE outcome.kind = "no_client" ->
                        /\ response' = Some(NO_CLIENT_RESPONSE)
                        /\ pc' = "Done"
                        /\ UNCHANGED <<mcp_processing, is_news_query>>
                 [] outcome.kind = "error" ->
                        /\ response' = Some(error_response(outcome.text))
                        /\ pc' = "Done"
                        /\ mcp_processing' = FALSE
                        /\ is_news_query' = FALSE
                 [] OTHER ->
                        /\ pc' = "PostProcessing"
                        /\ UNCHANGED <<response, mcp_processing, is_news_query>>
    /\ UNCHANGED <<user_message, selection, mcp_tools_used, mcp_using_search, mcp_tool_results,
                   tool_results, next_tool, last_outcome, context_run>>
    /\ UNCHANGED chat_vars
    /\ UNCHANGED config_vars
    /\ UNCHANGED search_vars

\* ai.py:351-421: the reply is post-processed and returned
ReturnResponse ==
    /\ pc = "PostProcessing"
    /\ response' = Some([content |-> post_process(completion[1].text,
                                                  IF context_run = None THEN ""
                                                  ELSE context_run[1].context,
                                                  enable_mcp, mcp_tools_used).content,
                         reasoning |-> "reasoning",
                         mcp_tools_used |-> IF enable_mcp THEN mcp_tools_used ELSE <<>>])
    /\ mcp_processing' = FALSE
    /\ is_news_query' = FALSE
    /\ pc' = "Done"
    /\ UNCHANGED <<user_message, selection, mcp_tools_used, mcp_using_search, mcp_tool_results,
                   tool_results, next_tool, last_outcome, context_run, completion>>
    /\ UNCHANGED chat_vars
    /\ UNCHANGED config_vars
    /\ UNCHANGED search_vars

Next ==
    \/ \E i \in 1..Len(mcp_settings.mcpServers) : ToggleServer(i)
    \/ ToggleWebSearch
    \/ ToggleMcp
    \/ \E query \in Queries : GenerateResponse(query) /\ UNCHANGED chat_vars
    \/ SelectMcpTools
    \/ ExecuteMcpTool
    \/ StoreToolResults
    \/ ContextSearch
    \/ CallModel
    \/ ReturnResponse

Spec == Init /\ [][Next]_vars

\* generate_response has been entered and has not returned
InTurn == pc \in {"Selecting", "Executing", "Assembling", "AwaitingModel", "PostProcessing"}

\* control moves on within generate_response: select_mcp_tools returns (ai.py:36), the loop
\* over the selected tools takes its next tool or ends (ai.py:42-48), the context search is
\* over (ai.py:93-150), the model call is over (ai.py:325-349), the reply is returned
\* (ai.py:351-421)
TakesNextTool ==
    /\ pc = "Executing"
    /\ next_tool <= Len(selection.tools_used)
    /\ next_tool' = next_tool + 1

LeavesStep ==
    \/ pc = "Selecting" /\ pc' = "Executing"
    \/ pc = "Executing" /\ next_tool > Len(selection.tools_used) /\ pc' = "Assembling"
    \/ pc = "Assembling" /\ pc' \in {"AwaitingModel", "Raised"}
    \/ pc = "AwaitingModel" /\ pc' \in {"PostProcessing", "Done"}
    \/ pc = "PostProcessing" /\ pc' = "Done"

Proceeds == (TakesNextTool /\ pc' = pc) \/ LeavesStep

\* generate_response is one synchronous call (ai.py:9-434) on the single thread of the
\* script: once it has been entered, control keeps moving on, since every call made on the
\* way returns; when the user sends a query is left open
TurnFairness == WF_next_tool(TakesNextTool) /\ WF_pc(LeavesStep)

SpecLive == Init /\ [][Next]_vars /\ TurnFairness

(***************************************************************************)
(* The search client on its own: brave_search called with every            *)
(* max_retries up to MaxRetries against every behaviour of the API.        *)
(***************************************************************************)
SearchCalls ==
    {[max_retries |-> n, key_set |-> k, freshness |-> f, http |-> h] :
        n \in 0..MaxRetries, k \in BOOLEAN, f \in {None, Some("d")},
        h \in UNION {HttpScripts(m) : m \in 0..MaxRetries}}

InitSearch ==
    /\ mcp_settings = DefaultSettings
    /\ saved_mcp_settings = mcp_settings
    /\ hash_order = "listed"
    /\ api_key_set \in BOOLEAN
    /\ InitSession
    /\ search_call \in {Some(c) : c \in {d \in SearchCalls :
                            d.key_set = api_key_set /\ d.http \in HttpScripts(d.max_retries)}}
    /\ search_run = None
    /\ unit_call = None
    /\ unit_run = <<>>

\* search.py:10-83
CallBraveSearch ==
    /\ search_call # None
    /\ search_run = None
    /\ search_run' = Some(brave_search(search_call[1].key_set, search_call[1].freshness,
                                       search_call[1].max_retries, search_call[1].http))
    /\ UNCHANGED <<search_call, unit_call, unit_run>>
    /\ UNCHANGED config_vars
    /\ UNCHANGED turn_vars

NextSearch == CallBraveSearch

SpecSearch == InitSearch /\ [][NextSearch]_vars


(***************************************************************************)
(* The post-processing of ai.py:351-408 on its own: applied to a reply,    *)
(* then to its own output, with the same search context and tools used.    *)
(***************************************************************************)
\* replies of the model
PostReplies == {
    "Paris is the capital.",
    "Paris [1].",
    "See the references [1].",
    "See references below.",
    "Paris.\nI used the search tool.\nDone [2].",
    "## REFERENCES\n[1] t - u",
    "Found via Brave search [1].\nSee References.",
    "USING TOOLS\nok",
    "References given by the search tool used.\nParis [1].",
    ""}

\* the contexts format_search_results_for_context yields for one and two records
PostContexts == {
    format_search_results_for_context(
        <<[title |-> "t", url |-> "u", snippet |-> "d"]>>),
    format_search_results_for_context(
        <<[title |-> "Brave Search used via API", url |-> "https://x.org/a_(b)", snippet |-> "d"],
          [title |-> "t] 2", url |-> "u", snippet |-> ""]>>)}

\* the arguments with which generate_response can reach its post-processing: there is a
\* context only when the context search ran (ai.py:98-114)
PostCalls ==
    {[op |-> "post_process", reply |-> r, context |-> c, use_mcp |-> m, tools_used |-> t] :
        r \in PostReplies, c \in PostContexts \cup {""}, m \in BOOLEAN,
        t \in {<<>>, <<"search_brave-search">>, <<"solve_equations_mcp-reasoner">>}}

\* the number of successive applications
MaxPasses == 2

InitPost ==
    /\ mcp_settings = DefaultSettings
    /\ saved_mcp_settings = mcp_settings
    /\ hash_order = "listed"
    /\ api_key_set = TRUE
    /\ InitSession
    /\ search_call = None
    /\ search_run = None
    /\ unit_call \in {Some(c) : c \in {d \in PostCalls :
                        /\ ~d.use_mcp => d.tools_used = <<>>
                        /\ d.context # "" =>
                              use_brave_search(TRUE, d.use_mcp, d.tools_used)}}
    /\ unit_run = <<>>

\* ai.py:351-408
PostProcess ==
    /\ unit_call # None
    /\ unit_call[1].op = "post_process"
    /\ Len(unit_run) < MaxPasses
    /\ unit_run' = Append(unit_run,
                          post_process(IF Len(unit_run) = 0 THEN unit_call[1].reply
                                       ELSE unit_run[Len(unit_run)].content,
                                       unit_call[1].context, unit_call[1].use_mcp,
                                       unit_call[1].tools_used))
    /\ UNCHANGED <<search_call, search_run, unit_call>>
    /\ UNCHANGED config_vars
    /\ UNCHANGED turn_vars

NextPost == PostProcess

SpecPost == InitPost /\ [][NextPost]_vars

(***************************************************************************)
(* The rendering of one tool result into the prompt (ai.py:165-210) on its *)
(* own, for scrape and crawl payloads of every length around the caps.     *)
(***************************************************************************)
RECURSIVE Repeat(_, _)
\* the string of n copies of the character c
Repeat(c, n) ==
    IF n = 0 THEN "" ELSE IF n = 1 THEN c
    ELSE Repeat(c, n \div 2) \o Repeat(c, n - (n \div 2))

\* the lengths of the content of a scraped page
ScrapeLengths == {0, 1, 1999, 2000, 2001, 5000}

\* the lengths of the content of a crawled page
PageLengths == {0, 1000, 1001}

\* the number of pages of a crawl payload is at most MaxPages
MaxPages == 4

Page(n) == [title |-> "p", url |-> "u", content |-> Repeat("x", n)]

RECURSIVE PagesOf(_)
\* the page lists of k pages
PagesOf(k) ==
    IF k = 0 THEN {<<>>}
    ELSE {Append(pages, Page(n)) : pages \in PagesOf(k - 1), n \in PageLengths}

RenderCalls ==
    {[op |-> "render_tool_result",
      result |-> Envelope("scrape_firecrawl-mcp", TRUE,
                          [kind |-> "scrape", title |-> "t", url |-> "u",
                           content |-> Repeat("x", n), links |-> links], None)] :
        n \in ScrapeLengths,
        links \in {<<>>, [i \in 1..6 |-> [text |-> "l", url |-> "v"]]}}
    \cup
    {[op |-> "render_tool_result",
      result |-> Envelope("crawl_firecrawl-mcp", TRUE,
                          [kind |-> "pages", base_url |-> "b", pages |-> pages], None)] :
        pages \in UNION {PagesOf(k) : k \in 0..MaxPages}}
    \cup
    {[op |-> "render_tool_result",
      result |-> Envelope("search_brave-search", TRUE,
                          [kind |-> "records", records |-> process_results(Ok(k).items)], None)] :
        k \in 1..MaxItems}

InitRender ==
    /\ mcp_settings = DefaultSettings
    /\ saved_mcp_settings = mcp_settings
    /\ hash_order = "listed"
    /\ api_key_set = TRUE
    /\ InitSession
    /\ search_call = None
    /\ search_run = None
    /\ unit_call \in {Some(c) : c \in RenderCalls}
    /\ unit_run = <<>>

\* ai.py:165-210
RenderToolResult ==
    /\ unit_call # None
    /\ unit_call[1].op = "render_tool_result"
    /\ unit_run = <<>>
    /\ unit_run' = <<render_tool_result(unit_call[1].result)>>
    /\ UNCHANGED <<search_call, search_run, unit_call>>
    /\ UNCHANGED config_vars
    /\ UNCHANGED turn_vars

NextRender == RenderToolResult

SpecRender == InitRender /\ [][NextRender]_vars

(***************************************************************************)
(* The chat page of app.py: the chat input handler, the conversation       *)
(* buttons of the sidebar and conversations.json.  A script run is not     *)
(* interrupted: the sidebar acts between turns.  The values written to the *)
(* file are strings, lists and dictionaries with string keys, which        *)
(* json.dump and json.load give back unchanged; what a reload changes is   *)
(* the identity of the list objects (aliased).  The timestamp of an entry  *)
(* is not modelled.                                                        *)
(***************************************************************************)
\* the largest number of chat inputs of a session
MaxTurns == 2

\* the largest number of conversation ids a session issues
MaxConversations == 2

\* the chat inputs of the session
ChatQueries == {"What happened in the news today?"}

\* app.py:1038
title_of(prompt) == IF Len(prompt) > 30 THEN SubSeq(prompt, 1, 30) \o "..." ELSE prompt

\* app.py:1015
user_message_data(prompt) == [role |-> "user", content |-> prompt]

\* app.py:1059-1069
message_data(full_response, use_mcp) ==
    IF use_mcp /\ Len(full_response.mcp_tools_used) > 0
    THEN [role |-> "assistant", content |-> full_response.content,
          reasoning |-> full_response.reasoning,
          mcp_tools_used |-> full_response.mcp_tools_used]
    ELSE [role |-> "assistant", content |-> full_response.content,
          reasoning |-> full_response.reasoning]

\* the entry written without the last message of the list (a fault that C20 has to exclude)
save_conversation_stale(convs, id, msgs, title) ==
    [k \in DOMAIN convs \cup {id} |->
        IF k = id THEN [messages |-> SubSeq(msgs, 1, Len(msgs) - 1), title |-> title]
        ELSE convs[k]]

\* conversation.py:21-37 (app.py:80-87): the dictionary that is kept and written to the file
save_conversation(convs, id, msgs, title) ==
    [k \in DOMAIN convs \cup {id} |->
        IF k = id THEN [messages |-> msgs, title |-> title] ELSE convs[k]]

\* the conversations after a change of the current message list: the entry of the current
\* conversation changes with it when both are the same list object
shared(convs, id, msgs) ==
    IF aliased THEN [convs EXCEPT ![id].messages = msgs] ELSE convs

\* the session of the chat page at a first start, with the default settings and the search
\* key set (app.py:222-234)
InitChat ==
    /\ mcp_settings = DefaultSettings
    /\ saved_mcp_settings = mcp_settings
    /\ hash_order = "listed"
    /\ api_key_set = TRUE
    /\ InitSession
    /\ search_call = None
    /\ search_run = None
    /\ unit_call = None
    /\ unit_run = <<>>

\* app.py:1013-1046: the user message is appended, the first one gives the title, and
\* generate_response starts
ChatInput(prompt) ==
    /\ turns < MaxTurns
    /\ GenerateResponse(prompt)
    /\ turns' = turns + 1
    /\ messages' = Append(messages, user_message_data(prompt))
    /\ conversations' = shared(conversations, conversation_id, messages')
    /\ conversation_title' =
            IF Len(SelectSeq(messages', LAMBDA m : m.role = "user")) = 1
            THEN title_of(prompt) ELSE conversation_title
    /\ UNCHANGED <<conversation_id, conversations_file, aliased, uuids>>

\* app.py:1048-1085 and 457-460: the reply is appended, the conversation is saved and the
\* conversations are read back from the file; the locals of the turn are gone
FinishTurn ==
    /\ pc = "Done"
    /\ messages' = Append(messages, message_data(response[1], enable_mcp))
    /\ conversations_file' = save_conversation(shared(conversations, conversation_id, messages'),
                                               conversation_id, messages', conversation_title)
    /\ conversations' = conversations_file'
    /\ aliased' = FALSE
    /\ pc' = "Idle"
    /\ user_message' = ""
    /\ context_run' = None
    /\ completion' = None
    /\ response' = None
    /\ UNCHANGED <<selection, mcp_processing, mcp_tools_used, mcp_using_search, mcp_tool_results,
                   tool_results, next_tool, last_outcome, is_news_query, conversation_id,
                   conversation_title, uuids, turns>>
    /\ UNCHANGED config_vars
    /\ UNCHANGED search_vars

\* what the sidebar buttons leave alone
sidebar_unchanged ==
    /\ UNCHANGED <<pc, user_message, selection, mcp_processing, mcp_tools_used, mcp_using_search,
                   mcp_tool_results, tool_results, next_tool, last_outcome, reply_vars, turns>>
    /\ UNCHANGED config_vars
    /\ UNCHANGED search_vars

\* app.py:428-451 and 457-460
NewConversation ==
    /\ pc = "Idle"
    /\ uuids < MaxConversations
    /\ uuids' = uuids + 1
    /\ conversation_id' = Uuid(uuids')
    /\ messages' = <<SYSTEM_MESSAGE>>
    /\ conversation_title' = "New Conversation"
    /\ conversations_file' = save_conversation(conversations, conversation_id', messages',
                                               conversation_title')
    /\ conversations' = conversations_file'
    /\ aliased' = FALSE
    /\ sidebar_unchanged

\* app.py:483-487
SelectConversation(id) ==
    /\ pc = "Idle"
    /\ id \in DOMAIN conversations
    /\ conversation_id' = id
    /\ messages' = conversations[id].messages
    /\ conversation_title' = conversations[id].title
    /\ aliased' = TRUE
    /\ UNCHANGED <<conversations, conversations_file, uuids>>
    /\ sidebar_unchanged

\* app.py:504-516
RenameConversation(id, new_title) ==
    /\ pc = "Idle"
    /\ id \in DOMAIN conversations
    /\ conversations[id].title # new_title
    /\ conversations' = save_conversation(conversations, id, conversations[id].messages,
                                          new_title)
    /\ conversations_file' = conversations'
    /\ conversation_title' = IF conversation_id = id THEN new_title ELSE conversation_title
    /\ UNCHANGED <<messages, conversation_id, aliased, uuids>>
    /\ sidebar_unchanged

\* app.py:524-537
DeleteConversation(id) ==
    /\ pc = "Idle"
    /\ id \in DOMAIN conversations
    /\ conversations' = [k \in DOMAIN conversations \ {id} |-> conversations[k]]
    /\ conversations_file' = conversations'
    /\ IF conversation_id = id
       THEN /\ uuids < MaxConversations
            /\ uuids' = uuids + 1
            /\ conversation_id' = Uuid(uuids')
            /\ messages' = <<SYSTEM_MESSAGE>>
            /\ conversation_title' = "New Conversation"
            /\ aliased' = FALSE
       ELSE UNCHANGED <<messages, conversation_id, conversation_title, aliased, uuids>>
    /\ sidebar_unchanged

NextChat ==
    \/ ToggleMcp
    \/ \E prompt \in ChatQueries : ChatInput(prompt)
    \/ SelectMcpTools
    \/ ExecuteMcpTool
    \/ StoreToolResults
    \/ ContextSearch
    \/ CallModel
    \/ ReturnResponse
    \/ FinishTurn
    \/ NewConversation
    \/ \E id \in DOMAIN conversations : SelectConversation(id)
    \/ \E id \in DOMAIN conversations : RenameConversation(id, "Renamed")
    \/ \E id \in DOMAIN conversations : DeleteConversation(id)

SpecChat == InitChat /\ [][NextChat]_vars

(***************************************************************************)
(* select_mcp_tools on its own: a query, a settings file and the toggles   *)
(* are drawn, and the function is called up to MaxRuns times.  Between two *)
(* calls the application may be restarted, which gives the new process its *)
(* own set iteration order (mcp.py:84-88 builds a set of strings).         *)
(***************************************************************************)
\* a settings file in which firecrawl-mcp allows only its map function
MapSettings ==
    [mcpServers |-> <<
        Server("firecrawl-mcp", <<"firecrawl_map">>, <<>>),
        Server("brave-search", <<"search">>, <<>>)>>]

\* a settings file without servers
NoSettings == [mcpServers |-> <<>>]

SelectSettings == SettingsFiles \cup {MapSettings, NoSettings}

SelectQueries ==
    Queries \cup {"use firecrawl-mcp to scrape the latest page",
                  "use firecrawl-mcp to scrape the page"}

\* the number of calls with the same arguments
MaxRuns == 2

InitSelect ==
    /\ mcp_settings \in SelectSettings
    /\ saved_mcp_settings = mcp_settings
    /\ hash_order \in HashOrders
    /\ api_key_set = TRUE
    /\ InitSession
    /\ search_call = None
    /\ search_run = None
    /\ unit_call \in {Some([op |-> "select_mcp_tools", query |-> q]) : q \in SelectQueries}
    /\ unit_run = <<>>

\* mcp.py:623-1114: one call, made while MCP is enabled (ai.py:28-36); the run keeps the
\* order of the process and the web search toggle it was made under
SelectTools ==
    /\ unit_call # None
    /\ unit_call[1].op = "select_mcp_tools"
    /\ enable_mcp
    /\ Len(unit_run) < MaxRuns
    /\ unit_run' = Append(unit_run,
                          [order |-> hash_order,
                           web_search |-> enable_web_search,
                           selection |-> select_mcp_tools(unit_call[1].query, mcp_settings,
                                                          hash_order, enable_web_search,
                                                          api_key_set, <<Ok(MaxItems)>>)])
    /\ UNCHANGED <<search_call, search_run, unit_call>>
    /\ UNCHANGED config_vars
    /\ UNCHANGED turn_vars

\* the application is started again: the new process has its own string hashes, and so its
\* own iteration order of set(autoApprove + alwaysAllow) (mcp.py:84-88)
RestartProcess ==
    /\ unit_call # None
    /\ unit_call[1].op = "select_mcp_tools"
    /\ Len(unit_run) = 1
    /\ hash_order' \in HashOrders \ {hash_order}
    /\ UNCHANGED <<mcp_settings, saved_mcp_settings, api_key_set, enable_web_search, enable_mcp>>
    /\ UNCHANGED turn_vars
    /\ UNCHANGED search_vars

NextSelect ==
    \/ ToggleMcp
    \/ ToggleWebSearch
    \/ SelectTools
    \/ RestartProcess

SpecSelect == InitSelect /\ [][NextSelect]_vars

(***************************************************************************)
(* Properties.  While pc = "Executing" the variable selection holds what   *)
(* select_mcp_tools did for user_message under the configuration in force, *)
(* and last_outcome holds the most recent execute_mcp_tool call.           *)
(***************************************************************************)
EndsWith(s, suffix) ==
    Len(suffix) <= Len(s) /\ SubSeq(s, Len(s) - Len(suffix) + 1, Len(s)) = suffix

\* the servers of the settings in force
Servers == {mcp_settings.mcpServers[i] : i \in 1..Len(mcp_settings.mcpServers)}

\* the registry for the settings in force
AvailableTools == get_available_mcp_tools(mcp_settings, hash_order)

\* some enabled server allows at least one function
SomeServerContributes ==
    \E server \in Servers : ~server.disabled /\ Len(server_tools(server, hash_order)) > 0

\* C1: when the query contains "use <server>" for an enabled server that has an available
\* tool, the first tool select_mcp_tools returns is a tool of exactly that server, whatever
\* other rule (the scrape and crawl shortcuts included) the query also matches
C1_ExplicitServerFirst ==
    pc = "Executing" =>
        \A server \in Servers :
            (/\ ~server.disabled
             /\ Len(server_tools(server, hash_order)) > 0
             /\ In("use " \o server.name, user_message))
            => /\ Len(selection.tools_used) > 0
               /\ InList(selection.tools_used[1], server_tools(server, hash_order))

\* C2: the sequence select_mcp_tools returns contains no tool identifier twice
C2_NoDuplicateTools ==
    pc = "Executing" =>
        \A i, j \in 1..Len(selection.tools_used) :
            i # j => selection.tools_used[i] # selection.tools_used[j]

\* C3: every identifier select_mcp_tools returns is in the list get_available_mcp_tools
\* yields for the configuration in force during the selection
C3_SelectedToolsAvailable ==
    pc = "Executing" =>
        \A i \in 1..Len(selection.tools_used) : InList(selection.tools_used[i], AvailableTools)

\* a selection of several tools, made by several rules
C3_Witness ==
    /\ pc = "Executing"
    /\ Len(selection.tools_used) >= 2
    /\ \A i \in 1..Len(selection.tools_used) : InList(selection.tools_used[i], AvailableTools)

\* C4 as claimed: after any toggles, get_available_mcp_tools yields no identifier of a
\* server whose configuration has disabled = true
C4_NoToolOfDisabledServer ==
    \A i \in 1..Len(AvailableTools) :
        \A server \in Servers :
            server.disabled => ~EndsWith(AvailableTools[i], "_" \o server.name)

\* C4 amended: after any toggles, if some enabled server allows a function then
\* get_available_mcp_tools yields no identifier of a disabled server; otherwise it yields
\* its fixed default list, which leaves out search_brave-search exactly when brave-search
\* is disabled and names the other default servers whether or not they are disabled
C4_NoToolOfDisabledServerUnlessDefault ==
    /\ SomeServerContributes =>
            \A i \in 1..Len(AvailableTools) :
                \A server \in Servers :
                    server.disabled => ~EndsWith(AvailableTools[i], "_" \o server.name)
    /\ ~SomeServerContributes =>
            /\ InList("search_brave-search", AvailableTools)
                    <=> ~\E server \in Servers : server.name = "brave-search" /\ server.disabled
            /\ InList("firecrawl_scrape_firecrawl-mcp", AvailableTools)

\* one server switched off while another one still contributes its tools
C4_Witness ==
    /\ \E server \in Servers : server.disabled /\ Len(server_tools(server, hash_order)) > 0
    /\ SomeServerContributes
    /\ Len(AvailableTools) > 0

C6_ErrorIffFailure ==
    last_outcome # None =>
        (last_outcome[1].result.error # None <=> ~last_outcome[1].result.success)

\* C7: when execute_mcp_tool calls the search client, the envelope has success = true
\* exactly when the search client returned a non-empty result list
C7_SuccessIffResults ==
    (last_outcome # None /\ last_outcome[1].search # None) =>
        (last_outcome[1].result.success <=> Len(last_outcome[1].search[1].results) > 0)

\* C8: splitting the identifier the registry builds from a function name f and a server
\* name s at the first separator gives (f, s) again
C8_IdentifierRoundTrip ==
    \A server \in Servers :
        \A i \in 1..Len(allowed_functions(server, hash_order)) :
            split_first(tool_id(allowed_functions(server, hash_order)[i], server.name))
                = <<allowed_functions(server, hash_order)[i], server.name>>

\* C9: for a tool identifier with "scrape" in it and a query with an http(s):// URL,
\* execute_mcp_tool attempts the scrape action on that URL and returns a failed envelope
\* whose error names the URL; a scrape or crawl tool never returns success
C9_ScrapeNamesUrl ==
    last_outcome # None =>
        /\ (/\ In("scrape", lower(last_outcome[1].result.tool))
            /\ StartsWith(url_search(user_message), "http"))
           => /\ last_outcome[1].action = "scrape"
              /\ last_outcome[1].url = url_search(user_message)
              /\ ~last_outcome[1].result.success
              /\ last_outcome[1].result.error # None
              /\ In(url_search(user_message), last_outcome[1].result.error[1])
        /\ (\/ In("scrape", lower(last_outcome[1].result.tool))
            \/ In("crawl", lower(last_outcome[1].result.tool)))
           => ~last_outcome[1].result.success

\* 1, 2, 4, ... : the delays before the attempts 2..n
DoublingDelays(n) == [i \in 1..(n - 1) |-> 2 ^ (i - 1)]

\* C10: with max_retries = n >= 1 and every attempt failing with a request error,
\* brave_search makes exactly n attempts, sleeps 1, 2, 4, ... between them and returns
\* the empty list
C10_Backoff ==
    (/\ search_run # None
     /\ search_call[1].key_set
     /\ search_call[1].max_retries >= 1
     /\ search_call[1].http = Fails(search_call[1].max_retries))
    => /\ search_run[1].attempts = search_call[1].max_retries
       /\ search_run[1].sleeps = DoublingDelays(search_call[1].max_retries)
       /\ search_run[1].results = <<>>
       /\ ~search_run[1].raised

\* the call with max_retries = 3 whose three attempts all failed
C10_Witness ==
    /\ search_run # None
    /\ search_call[1].key_set
    /\ search_call[1].max_retries = DEFAULT_MAX_RETRIES
    /\ search_call[1].http = Fails(DEFAULT_MAX_RETRIES)
    /\ search_run[1].attempts = 3
    /\ search_run[1].sleeps = <<1, 2>>

\* C11: brave_search never raises to its caller: whatever the HTTP calls do, a successful
\* response with a body of another shape included, the call returns a list of records
C11_NeverRaises ==
    search_run # None => ~search_run[1].raised

\* a search client call is passed freshness = day exactly when the query of the turn
\* contains a time-sensitivity keyword
FreshnessByKeywords(search) ==
    (search.freshness = Some("d")) <=> AnyIn(time_sensitive_keywords, lower(user_message))

\* C12: every search client call of a turn, the context search of generate_response and
\* each search of execute_mcp_tool alike, is passed freshness = day exactly when the query
\* contains one of news, recent, latest, today, current, breaking, update, development
C12_FreshnessByKeywords ==
    /\ (last_outcome # None /\ last_outcome[1].search # None)
       => FreshnessByKeywords(last_outcome[1].search[1])
    /\ context_run # None => FreshnessByKeywords(context_run[1].search)

\* the same for the context search alone
C12_ContextFreshness ==
    context_run # None => FreshnessByKeywords(context_run[1].search)

(***************************************************************************)
(* Properties of the post-processing.  In SpecPost, unit_run[i] holds the  *)
(* texts of the i-th application: after the References step (referenced),  *)
(* after the tool-mention filter (filtered) and as returned (content).     *)
(***************************************************************************)
PostRuns == IF unit_call # None /\ unit_call[1].op = "post_process" THEN Len(unit_run) ELSE 0

\* the number of occurrences of needle in text
RECURSIVE Count(_, _)
Count(needle, text) ==
    IF Find(text, needle) = 0 THEN 0
    ELSE 1 + Count(needle, SubSeq(text, Find(text, needle) + Len(needle), Len(text)))

\* C13 as claimed: a second application of the post-processing to its own output, with
\* the same search context and tools used, returns that output unchanged
C13_PostProcessIdempotent ==
    \A i \in 2..PostRuns : unit_run[i].content = unit_run[i - 1].content

\* C13 amended: applied to an output of its own that holds a References section, the
\* post-processing appends no second one
C13_NoSecondReferences ==
    \A i \in 2..PostRuns :
        In("## References", unit_run[i - 1].content)
        => Count("## References", unit_run[i].content)
           = Count("## References", unit_run[i - 1].content)

\* the first application appended the References section, the second one left it alone
C13_Witness ==
    /\ PostRuns >= 2
    /\ ~In("## References", unit_call[1].reply)
    /\ Count("## References", unit_run[1].content) = 1
    /\ Count("## References", unit_run[2].content) = 1

\* the reply has a line that is a References heading
HasReferencesHeading(text) ==
    \E i \in 1..Len(split(text, "\n")) :
        /\ StartsWith(split(text, "\n")[i], "#")
        /\ In("references", lower(split(text, "\n")[i]))

\* C14: when search context was used, a reply without the word "references" in any casing
\* gets the References section built from the pairs of the context; a reply with a
\* citation marker [1], [2] or [3] and still no References heading gets the clarifying
\* note instead; one pass never appends both
C14_ReferencesOrNote ==
    (PostRuns >= 1 /\ Len(local_search_results(unit_call[1].context)) > 0) =>
        LET reply == unit_call[1].reply
            section == references_section(local_search_results(unit_call[1].context))
            out == unit_run[1].referenced
        IN  /\ ~In("references", lower(reply)) => out = reply \o section
            /\ (/\ In("references", lower(reply))
                /\ ~HasReferencesHeading(reply)
                /\ \E marker \in {"[1]", "[2]", "[3]"} : In(marker, reply))
               => out = reply \o CITATION_NOTE
            /\ out \in {reply, reply \o section, reply \o CITATION_NOTE}

\* a line holds a tool-name keyword and a usage-verb keyword
MentionsToolUsage(line) ==
    /\ \E k \in {"tool", "mcp", "search", "tavily", "brave", "perplexity", "serper", "firecrawl"} :
            In(k, lower(line))
    /\ \E v \in {"used", "using", "utilized", "provided by", "powered by", "via"} :
            In(v, lower(line))

\* C15: when tools were used, the text the tool-mention filter hands back has no line
\* with a tool-name keyword and a usage-verb keyword, and it keeps every other line of the
\* text it was given (the References section appended just before included) in order
C15_ToolMentionsFiltered ==
    (PostRuns >= 1 /\ unit_call[1].use_mcp /\ Len(unit_call[1].tools_used) > 0) =>
        /\ \A i \in 1..Len(split(unit_run[1].filtered, "\n")) :
                ~MentionsToolUsage(split(unit_run[1].filtered, "\n")[i])
        /\ unit_run[1].filtered
           = join("\n", SelectSeq(split(unit_run[1].referenced, "\n"),
                                  LAMBDA line : ~MentionsToolUsage(line)))

\* a line of the reply is removed and the line of the References section just appended
\* is kept
C15_Witness ==
    /\ PostRuns >= 1
    /\ unit_call[1].use_mcp
    /\ Len(unit_call[1].tools_used) > 0
    /\ In("I used the search tool.", unit_call[1].reply)
    /\ ~In("I used the search tool.", unit_run[1].filtered)
    /\ In("## References\n[1] t: d - u\n", unit_run[1].filtered)

\* the content the claim expects in the prompt for a content and a cap
ExpectedContent(content, cap) ==
    IF Len(content) <= cap THEN content
    ELSE SubSeq(content, 1, cap) \o "... [Content truncated]"

RenderRun == unit_call # None /\ unit_call[1].op = "render_tool_result" /\ Len(unit_run) = 1

\* the content rendered for page i of a crawl payload, None when the page is not rendered
RenderedPage(i) == IF i <= Len(unit_run[1].contents) THEN Some(unit_run[1].contents[i]) ELSE None

IsApologyFor(content, text) ==
    /\ StartsWith(content, "Sorry, I encountered an error")
    /\ In(text, content)

ReasonerOffersBoth ==
    \E server \in Servers :
        /\ server.name = "mcp-reasoner"
        /\ ~server.disabled
        /\ InList("breakdown_complex_task", allowed_functions(server, hash_order))
        /\ InList("solve_equations", allowed_functions(server, hash_order))

\* C18: for the query "use mcp-reasoner to solve x^2=4", with server mcp-reasoner enabled
\* and offering the task-breakdown and the equation-solving functions, select_mcp_tools
\* returns exactly the equation-solving tool of mcp-reasoner, and execute_mcp_tool returns
\* a failed not-implemented envelope for it
C18_ReasonerSolvesEquation ==
    (/\ pc = "Executing"
     /\ user_message = "use mcp-reasoner to solve x^2=4"
     /\ ReasonerOffersBoth)
    => /\ selection.tools_used = <<"solve_equations_mcp-reasoner">>
       /\ next_tool > 1 =>
            /\ last_outcome[1].result.tool = "solve_equations_mcp-reasoner"
            /\ ~last_outcome[1].result.success
            /\ last_outcome[1].result.error # None
            /\ In("not implemented", last_outcome[1].result.error[1])

\* the news query of a turn with web search and MCP enabled, when no server contributes a
\* tool and the default list that stands in holds search_brave-search
NewsTurnOnFallbackRegistry ==
    /\ user_message = "What happened in the news today?"
    /\ enable_web_search
    /\ enable_mcp
    /\ ~SomeServerContributes
    /\ InList("search_brave-search", AvailableTools)

\* C19: for the query "What happened in the news today?" with web search enabled and no
\* tools configured, select_mcp_tools picks search_brave-search from the default list and
\* sets mcp_using_search, and the search client is called with freshness = day
C19_NewsOnFallbackRegistry ==
    NewsTurnOnFallbackRegistry =>
        /\ pc = "Executing" =>
                /\ InList("search_brave-search", selection.tools_used)
                /\ mcp_using_search
        /\ pc = "AwaitingModel" =>
                /\ context_run # None
                /\ context_run[1].search.freshness = Some("d")

\* the part of C19 that the code satisfies: the selection marks the turn as using search
C19_NewsMarksSearch ==
    (NewsTurnOnFallbackRegistry /\ pc = "Executing") => mcp_using_search

\* the selection for that turn has been made
C19_Reached ==
    NewsTurnOnFallbackRegistry /\ pc = "Executing"

(***************************************************************************)
(* Properties of the chat page, checked under SpecChat.                    *)
(***************************************************************************)
\* every user message of the list is followed at once by an assistant message
Answered(msgs) ==
    \A i \in 1..Len(msgs) :
        msgs[i].role = "user" => (i < Len(msgs) /\ msgs[i + 1].role = "assistant")

\* no conversation of the file holds a user message without its reply
PersistedAnswered ==
    \A id \in DOMAIN conversations_file : Answered(conversations_file[id].messages)

\* the step in which the chat input arrives
TurnStarts == pc = "Idle" /\ pc' # "Idle"

\* the step that completes a turn
TurnCompletes == pc = "Done" /\ pc' = "Idle"

\* C20: a turn adds exactly one user message, when the chat input arrives, and one
\* assistant message after it, when the turn completes (also when the model call failed);
\* after a completed turn the entry of the current conversation in the file equals the
\* message list in memory; and no conversation of the file ever holds a user message
\* without an assistant reply after it
C20_TurnPersisted ==
    /\ []PersistedAnswered
    /\ [][TurnStarts =>
            /\ Len(messages') = Len(messages) + 1
            /\ SubSeq(messages', 1, Len(messages)) = messages
            /\ messages'[Len(messages')] = user_message_data(user_message')]_vars
    /\ [][(pc # "Idle" /\ pc' # "Idle") => messages' = messages]_vars
    /\ [][TurnCompletes =>
            /\ Len(messages') = Len(messages) + 1
            /\ SubSeq(messages', 1, Len(messages)) = messages
            /\ messages'[Len(messages')].role = "assistant"
            /\ messages'[Len(messages')].content = response[1].content
            /\ conversation_id' \in DOMAIN conversations_file'
            /\ conversations_file'[conversation_id'].messages = messages']_vars

\* the second turn of the session has completed after
\* a failed model call, and the file holds its four messages and the apology
C20_Witness ==
    /\ pc = "Idle"
    /\ turns = 2
    /\ Len(messages) = 5
    /\ IsApologyFor(messages[5].content, "Connection error.")
    /\ conversation_id \in DOMAIN conversations_file
    /\ conversations_file[conversation_id].messages = messages
    /\ Answered(messages)

(***************************************************************************)
(* Properties of select_mcp_tools, checked under SpecSelect.  unit_run[i]  *)
(* holds the i-th call: the order of the process, the web search toggle    *)
(* and the selection made.                                                 *)
(***************************************************************************)
SelectRuns ==
    IF unit_call # None /\ unit_call[1].op = "select_mcp_tools" THEN Len(unit_run) ELSE 0

\* the registry of the i-th call
RunTools(i) == get_available_mcp_tools(mcp_settings, unit_run[i].order)

\* the tools of the server that the query of the calls names, "" when it names none
RunRequested(i) ==
    SelectSeq(RunTools(i),
              LAMBDA t : In(explicit_tool_request(lower(unit_call[1].query),
                                                  get_available_mcp_servers(mcp_settings)), t))

\* the explicit-server override is reached in the i-th call and selects a tool
OverrideSelects(i) ==
    /\ ~scrape_shortcut_applies(unit_call[1].query, RunTools(i))
    /\ ~crawl_shortcut_applies(unit_call[1].query, RunTools(i))
    /\ explicit_tool_request(lower(unit_call[1].query),
                             get_available_mcp_servers(mcp_settings)) # ""
    /\ Len(RunRequested(i)) > 0
    /\ Len(unit_run[i].selection.tools_used) > 0
    /\ InList(unit_run[i].selection.tools_used[1], RunRequested(i))

\* C21: when the explicit-server override selects a tool whose identifier does not contain
\* "search", select_mcp_tools returns exactly that one tool
C21_OverrideReturnsAtOnce ==
    \A i \in 1..SelectRuns :
        (/\ OverrideSelects(i)
         /\ ~In("search", lower(unit_run[i].selection.tools_used[1])))
        => Len(unit_run[i].selection.tools_used) = 1

\* C22: a call made with web search enabled on a registry that offers a tool whose
\* identifier contains "search" returns a non-empty sequence
C22_SearchToolForced ==
    \A i \in 1..SelectRuns :
        (/\ unit_run[i].web_search
         /\ Len(search_tools_of(RunTools(i))) > 0)
        => Len(unit_run[i].selection.tools_used) > 0

\* the same for the calls that reach the fallback step, that is, in which no rule before
\* it has returned
C22_FallbackForces ==
    \A i \in 1..SelectRuns :
        (/\ unit_run[i].web_search
         /\ Len(search_tools_of(RunTools(i))) > 0
         /\ explicit_tool_request(lower(unit_call[1].query),
                                  get_available_mcp_servers(mcp_settings)) = "")
        => Len(unit_run[i].selection.tools_used) > 0

\* C23: two calls of select_mcp_tools with the same query, the same toggles and the same
\* configuration return the same sequence, in whichever process they run
C23_SelectionDeterministic ==
    \A i \in 1..SelectRuns : \A j \in 1..SelectRuns :
        unit_run[i].web_search = unit_run[j].web_search
        => unit_run[i].selection.tools_used = unit_run[j].selection.tools_used

\* within one process (one iteration order of the sets) the two calls do agree
C23_DeterministicInProcess ==
    \A i \in 1..SelectRuns : \A j \in 1..SelectRuns :
        (/\ unit_run[i].web_search = unit_run[j].web_search
         /\ unit_run[i].order = unit_run[j].order)
        => unit_run[i].selection.tools_used = unit_run[j].selection.tools_used

\* C29: a call of select_mcp_tools made with the web search toggle off never sets
\* mcp_using_search
C29_ToggleOffNeverMarks ==
    \A i \in 1..SelectRuns :
        ~unit_run[i].web_search => ~unit_run[i].selection.using_search

\* C29 (amended): a call of select_mcp_tools made with the web search toggle off sets
\* mcp_using_search only for a query with news intent (the news rule, which does not
\* read the toggle); the search rule and the fallback never set it
C29_ToggleOffOnlyNewsMarks ==
    \A i \in 1..SelectRuns :
        (~unit_run[i].web_search /\ unit_run[i].selection.using_search)
        => AnyIn(KW_news, lower(unit_call[1].query))

C29_Witness ==
    \E i \in 1..SelectRuns :
        /\ ~unit_run[i].web_search
        /\ unit_run[i].selection.using_search

\* with the toggle off a query with search intent and no news intent selects no search tool
C29_ToggleOffSearchQuery ==
    \E i \in 1..SelectRuns :
        /\ ~unit_run[i].web_search
        /\ AnyIn(KW_search, lower(unit_call[1].query))
        /\ ~AnyIn(KW_news, lower(unit_call[1].query))
        /\ Len(search_tools_of(RunTools(i))) > 0
        /\ ~unit_run[i].selection.using_search

\* whether the sequence s is an initial part of the sequence t
IsPrefixOf(s, t) == Len(s) <= Len(t) /\ SubSeq(t, 1, Len(s)) = s

\* C27: during selection each value published to st.session_state.mcp_tools_used extends the
\* one before it (the empty list of ai.py:25 first), and once select_mcp_tools has returned
\* within the turn the shared list equals the sequence returned
C27_PublishedGrowsToResult ==
    /\ \A k \in 1..Len(selection.published) :
           IsPrefixOf(IF k = 1 THEN <<>> ELSE selection.published[k - 1],
                      selection.published[k])
    /\ selection.returned => mcp_tools_used = selection.tools_used

C27_Witness ==
    /\ selection.returned
    /\ Len(selection.published) >= 2
    /\ Len(selection.published[1]) = 1
    /\ Len(mcp_tools_used) >= 2

\* the number of executions of the tool made so far in the turn: those inside
\* select_mcp_tools and those of the loop of ai.py:42-45
ExecutionsOf(tool_name) ==
    Cardinality({k \in 1..Len(selection.executed) :
                     selection.executed[k].result.tool = tool_name})
    + Cardinality({k \in 1..(next_tool - 1) : selection.tools_used[k] = tool_name})

\* C24: no tool is executed before select_mcp_tools has returned, and within the turn each
\* selected tool is executed once
C24_ExecutedOnceAfterSelection ==
    pc = "Executing"
    => /\ Len(selection.executed) = 0
       /\ \A i \in 1..Len(selection.tools_used) :
              ExecutionsOf(selection.tools_used[i])
                  = IF \E k \in 1..(next_tool - 1) : selection.tools_used[k] = selection.tools_used[i]
                    THEN 1 ELSE 0

\* C28: every turn terminates: a turn that has started reaches Done; every step taken
\* within the turn moves control on; the loop over the selected tools never runs past
\* their number, and a call of the search client made by a
\* tool or by the context search makes at most max_retries attempts
C28_TurnTerminates ==
    /\ InTurn ~> (pc = "Done")
    /\ [][InTurn => Proceeds]_vars
    /\ [](next_tool <= Len(selection.tools_used) + 1)
    /\ []((last_outcome # None /\ last_outcome[1].search # None)
            => last_outcome[1].search[1].attempts <= DEFAULT_MAX_RETRIES)
    /\ [](context_run # None => context_run[1].search.attempts <= DEFAULT_MAX_RETRIES)

\* a turn has ended after a tool and the context search have both used up their attempts
C28_Witness ==
    /\ pc = "Done"
    /\ enable_mcp
    /\ Len(mcp_tools_used) > 0
    /\ context_run # None
    /\ context_run[1].search.attempts = DEFAULT_MAX_RETRIES

\* C26: a failed envelope never aborts the turn: the turn never ends in an exception, the
\* loop over the selected tools is left only after the last of them has been executed,
\* with the successful envelopes as the stored tool results, and no stored tool result is
\* a failed envelope
C26_FailedToolKeepsTurn ==
    /\ [](pc # "Raised")
    /\ [](\A i \in 1..Len(mcp_tool_results) : mcp_tool_results[i].success)
    /\ [][pc = "Executing" =>
            /\ pc' \in {"Executing", "Assembling"}
            /\ pc' = "Executing" => next_tool' = next_tool + 1
            /\ pc' = "Assembling" =>
                    /\ next_tool = Len(selection.tools_used) + 1
                    /\ mcp_tool_results' = tool_results
                    /\ Len(tool_results) <= Len(selection.tools_used)]_vars

\* a turn in which one of two selected tools failed and the other succeeded has gone on
\* to a reply of the model
C26_Witness ==
    /\ pc = "Done"
    /\ completion[1].kind = "reply"
    /\ Len(mcp_tools_used) >= 2
    /\ Len(mcp_tool_results) = 1

\* C30: whenever generate_response has returned, mcp_processing is false and is_news_query
\* is cleared
C30_FlagsClearedOnReturn ==
    pc = "Done" => (~mcp_processing /\ ~is_news_query)

\* after a reply of the model or an exception of the model call both flags are cleared
C30_ClearedAfterModelCall ==
    (pc = "Done" /\ completion[1].kind # "no_client") => (~mcp_processing /\ ~is_news_query)

\* C25: the selection state is fresh for every query: when select_mcp_tools is entered the
\* shared tools-used list is empty and mcp_using_search is false, and when it has returned
\* mcp_using_search is true only if this selection set it
C25_FreshSelectionState ==
    /\ pc = "Selecting" => (mcp_tools_used = <<>> /\ ~mcp_using_search)
    /\ (pc = "Executing" /\ mcp_using_search) => selection.using_search

\* the tools-used list alone is fresh: ai.py:25 empties it before every selection
C25_ToolsUsedFresh ==
    pc = "Selecting" => mcp_tools_used = <<>>
====
